---------------------------- MODULE Spec2Model ----------------------------
(***************************************************************************)
(* A model of pica's control plane (src/lib.rs): the Control Core event    *)
(* loop (Pica::run and its handlers), the per-connection task spawned by   *)
(* Pica::connect, the ranging tick tasks, and the framing transport        *)
(* (Connection::write).                                                    *)
(*                                                                         *)
(* Device and Session (device.rs, session.rs) are not part of the source   *)
(* tree at hand; their behaviour is modelled from the specification and    *)
(* marked as such in the model map.                                        *)
(***************************************************************************)
EXTENDS Integers, Sequences, FiniteSets, TLC

(***************************************************************************)
(* Bounds of the model.                                                    *)
(***************************************************************************)
\* Number of host connections accepted during a run.
MaxConnects == 2
\* Largest mac address; macs 0..MaxConnects-1 are the default device macs.
MaxMac == 2
\* Largest coordinate of a position (positions are points on a line).
MaxPos == 1
\* Largest session id a host uses.
MaxSessionId == 2
\* Largest sequence number a session reaches before the model stops ranging it.
MaxSeq == 2
\* Commands the hosts and admin clients keep in flight on the inbound channel.
MaxInflight == 1
\* Sessions the hosts keep open at a time, over all devices.
MaxSessionsAlive == 2
\* Per-device session limit, also the capacity of a device's outbound queue.
MAX_SESSION == 2
\* Device limit; MAX_SESSION * MAX_DEVICE is the inbound channel capacity.
MAX_DEVICE == 2
\* Bytes the send buffer of a socket holds.
SockBuf == 6
\* Calls of Connection::write on one connection.
MaxWrites == 2

Handles == 0..(MaxConnects - 1)
Macs == 0..MaxMac
Positions == 0..MaxPos
SessionIds == 1..MaxSessionId

\* mpsc::channel(MAX_SESSION * MAX_DEVICE)
InboundCap == MAX_SESSION * MAX_DEVICE
\* mpsc::channel(MAX_SESSION)
OutboundCap == MAX_SESSION

VARIABLES
    devices,    \* Pica.devices: handle -> Device
    anchors,    \* Pica.anchors: mac -> Anchor (its position)
    counter,    \* Pica.counter: next device handle
    inbound,    \* the core's inbound mpsc channel (Pica.rx / Pica.tx)
    outq,       \* per device: the outbound mpsc channel (packet_tx / packet_rx)
    conn,       \* per device: the connection task's position
    ticks,      \* the ranging tick tasks that are alive: <<handle, session_id>>
    core,       \* the core task's position (Pica::run)
    events,     \* the PicaEvents the step just taken has broadcast
    reply,      \* the oneshot reply the step just taken has sent
    gone,       \* history: handles whose Disconnect the core has processed
    discSent,   \* history: per device, Disconnect commands its task has sent
    last,       \* history: the command the core has processed last, when it
                \* is CreateAnchor or SetPosition, and the registry before it
    wire,       \* framing: bytes the socket has accepted
    wr,         \* framing: the position of Connection::write
    sock,       \* framing: free room in the socket's send buffer
    writes,     \* framing: what the calls of Connection::write have returned
    emitted,    \* history: the packet of the last call of Connection::write
                \* and the segments it has handed to the socket
    pcapng_file,\* framing: Connection.pcapng_file is Some
    tap,        \* the records the step just taken has sent to the capture file
    stream,     \* framing: bytes the host has sent that are not read yet
    rd          \* framing: the position of Connection::read

regVars == <<devices, anchors, counter>>
chanVars == <<inbound, outq, conn, ticks, core>>
outVars == <<events, reply>>
histVars == <<gone, discSent, last>>
wireVars == <<wire, wr, sock, writes, emitted, pcapng_file, tap, stream, rd>>
vars == <<devices, anchors, counter, inbound, outq, conn, ticks, core,
          events, reply, gone, discSent, last, wire, wr, sock, writes, emitted,
          pcapng_file, tap, stream, rd>>

(***************************************************************************)
(* Helpers on functions and sequences.                                     *)
(***************************************************************************)
Remove(f, k) == [x \in DOMAIN f \ {k} |-> f[x]]
Put(f, k, v) == [x \in DOMAIN f \cup {k} |-> IF x = k THEN v ELSE f[x]]
Min(S) == CHOOSE x \in S : \A y \in S : x <= y
Abs(x) == IF x < 0 THEN -x ELSE x

(***************************************************************************)
(* Data: mac addresses, positions, categories, events.                     *)
(***************************************************************************)
\* The mac address a handle converts to (MacAddress from usize).
MacOfHandle(device_handle) == device_handle

\* Position::default()
DefaultPosition == 0

\* Position::compute_range_azimuth_elevation, on a line: the distance and the
\* side the other participant is on (standing for azimuth and elevation).
compute_range_azimuth_elevation(from, to) ==
    [distance |-> Abs(to - from),
     bearing |-> IF to > from THEN 1 ELSE IF to < from THEN -1 ELSE 0]

DeviceAdded(category, mac_address, position) ==
    [type |-> "DeviceAdded", category |-> category,
     mac_address |-> mac_address, position |-> position]
\* A removal event that calls every participant an anchor.
DeviceRemoved_AsAnchor(category, mac_address) ==
    [type |-> "DeviceRemoved", category |-> "Anchor", mac_address |-> mac_address]

DeviceRemoved(category, mac_address) ==
    [type |-> "DeviceRemoved", category |-> category, mac_address |-> mac_address]
DeviceUpdated(category, mac_address, position) ==
    [type |-> "DeviceUpdated", category |-> category,
     mac_address |-> mac_address, position |-> position]
NeighborUpdated(source_category, source_mac_address, destination_category, destination_mac_address, range) ==
    [type |-> "NeighborUpdated",
     source_category |-> source_category,
     source_mac_address |-> source_mac_address,
     destination_category |-> destination_category,
     destination_mac_address |-> destination_mac_address,
     distance |-> range.distance, bearing |-> range.bearing]

(***************************************************************************)
(* Device and Session, as the specification describes them.                *)
(***************************************************************************)
EmptyMap == [x \in {} |-> 0]

\* The app configs a host gives a session: its own mac in the session, the
\* destinations, and the notification policy.
AppConfigs ==
    {[device_mac_address |-> 0, dst_mac_addresses |-> <<2, 1>>,
      ranging_data_ntf |-> "Enable"],
     [device_mac_address |-> 1, dst_mac_addresses |-> <<2, 1>>,
      ranging_data_ntf |-> "Disable"]}

\* The macs sessions are configured with.
ConfigMacs == {c.device_mac_address : c \in AppConfigs}

\* AppConfig::default()
DefaultAppConfig ==
    [device_mac_address |-> 0, dst_mac_addresses |-> <<>>,
     ranging_data_ntf |-> "Enable"]

\* AppConfig::can_start_ranging_with_peer
can_start_ranging_with_peer(local_app_config, peer_app_config) == TRUE

\* ReasonCode::StateChangeWithSessionManagementCommands
ByCommand == "StateChangeWithSessionManagementCommands"

\* Session::new: a session in state Init.
SessionNew ==
    [state |-> "Init", sequence_number |-> 0, app_config |-> DefaultAppConfig,
     reason |-> ByCommand]

\* Device::new followed by Device::init.
DeviceNew(device_handle) ==
    [mac_address |-> MacOfHandle(device_handle),
     position |-> DefaultPosition,
     state |-> "Ready",
     n_active_sessions |-> 0,
     sessions |-> EmptyMap]

\* The device once one of its Active sessions has left Active.
OneLessActive(device) ==
    [device EXCEPT
        !.n_active_sessions = @ - 1,
        !.state = IF device.n_active_sessions - 1 = 0 THEN "Ready" ELSE @]

\* The host commands of the model.
HostCommands ==
    {[op |-> "DeviceReset"], [op |-> "GetDeviceInfo"]}
    \cup [op : {"SessionInit", "SessionDeinit", "SessionStart", "SessionStop"},
          session_id : SessionIds]
    \cup [op : {"SessionSetAppConfig"}, session_id : SessionIds,
          app_config : AppConfigs]

\* Device::command: the device after the command, the status of the
\* response, and the tick tasks (by session id) it spawns and aborts.
DeviceCommand(device, cmd) ==
    LET sessions == device.sessions
        same == [device |-> device, status |-> "Ok", spawn |-> {}, abort |-> {}]
        known == cmd.session_id \in DOMAIN sessions
        st == sessions[cmd.session_id].state
    IN  CASE cmd.op = "DeviceReset" ->
               [same EXCEPT
                   !.device = [device EXCEPT !.sessions = EmptyMap,
                                             !.n_active_sessions = 0,
                                             !.state = "Ready"],
                   !.abort = DOMAIN sessions]
          [] cmd.op = "GetDeviceInfo" -> same
          [] cmd.op = "SessionInit" ->
               IF known THEN [same EXCEPT !.status = "SessionDuplicate"]
               ELSE IF Cardinality(DOMAIN sessions) >= MAX_SESSION
               THEN [same EXCEPT !.status = "MaxSessionsExceeded"]
               ELSE [same EXCEPT !.device.sessions =
                                     Put(sessions, cmd.session_id, SessionNew)]
          [] cmd.op = "SessionDeinit" ->
               IF ~known THEN [same EXCEPT !.status = "SessionNotExist"]
               ELSE LET d == IF st = "Active" THEN OneLessActive(device)
                             ELSE device
                    IN  [same EXCEPT
                            !.device = [d EXCEPT !.sessions =
                                           Remove(sessions, cmd.session_id)],
                            !.abort = {cmd.session_id}]
          [] cmd.op = "SessionSetAppConfig" ->
               IF ~known THEN [same EXCEPT !.status = "SessionNotExist"]
               ELSE IF st \notin {"Init", "Idle"}
               THEN [same EXCEPT !.status = "SessionActive"]
               ELSE [same EXCEPT
                        !.device.sessions[cmd.session_id].app_config =
                            cmd.app_config,
                        !.device.sessions[cmd.session_id].state = "Idle",
                        !.device.sessions[cmd.session_id].reason = ByCommand]
          [] cmd.op = "SessionStart" ->
               IF ~known THEN [same EXCEPT !.status = "SessionNotExist"]
               ELSE IF st # "Idle"
               THEN [same EXCEPT !.status = "SessionNotConfigured"]
               ELSE [same EXCEPT
                        !.device.sessions[cmd.session_id].state = "Active",
                        !.device.sessions[cmd.session_id].reason = ByCommand,
                        !.device.n_active_sessions = @ + 1,
                        !.device.state = "Active",
                        !.spawn = {cmd.session_id}]
          [] cmd.op = "SessionStop" ->
               IF ~known THEN [same EXCEPT !.status = "SessionNotExist"]
               ELSE IF st # "Active"
               THEN [same EXCEPT !.status = "SessionNotActive"]
               ELSE [same EXCEPT
                        !.device =
                            [OneLessActive(device) EXCEPT
                                !.sessions[cmd.session_id].state = "Idle",
                                !.sessions[cmd.session_id].reason = ByCommand],
                        !.abort = {cmd.session_id}]

\* Device::data_message_snd: the credit notification answering a data packet.
data_message_snd == [kind |-> "SessionControlNotification"]

\* Dropping a Device drops its sessions, and dropping a Session aborts its
\* ranging task: the tick tasks left once device_handle's sessions are gone.
DropSessions(device_handle, tasks) == {t \in tasks : t[1] # device_handle}

(***************************************************************************)
(* The Control Core: lookups over the registry.                            *)
(***************************************************************************)
RECURSIVE SeqOf(_)
\* The elements of a finite set of integers, in ascending order.
SeqOf(S) == IF S = {} THEN <<>> ELSE <<Min(S)>> \o SeqOf(S \ {Min(S)})

\* A lookup that overlooks the devices.
get_category_AnchorsOnly(mac_address) ==
    IF mac_address \in DOMAIN anchors THEN "Anchor" ELSE "None"

\* Pica::get_category
get_category(mac_address) ==
    IF mac_address \in DOMAIN anchors THEN "Anchor"
    ELSE IF \E h \in DOMAIN devices : devices[h].mac_address = mac_address
    THEN "Uci"
    ELSE "None"

\* A lookup that takes any device.
get_device_mut_by_mac_Any(mac_address) == DOMAIN devices

\* Pica::get_device_mut_by_mac: the handles `find` may return.
get_device_mut_by_mac(mac_address) ==
    {h \in DOMAIN devices : devices[h].mac_address = mac_address}

\* Pica::get_device_by_mac: the handles `find` may return.
get_device_by_mac(mac_address, local_app_config, session_id) ==
    {h \in DOMAIN devices :
        /\ session_id \in DOMAIN devices[h].sessions
        /\ LET session == devices[h].sessions[session_id]
           IN  /\ session.app_config.device_mac_address = mac_address
               /\ can_start_ranging_with_peer(local_app_config,
                                              session.app_config)
               /\ session.state = "Active"}

\* A lookup that takes a session in any state.
get_device_mut_by_mac_and_session_id_AnyState(mac_address, session_id) ==
    {h \in DOMAIN devices :
        /\ session_id \in DOMAIN devices[h].sessions
        /\ devices[h].sessions[session_id].app_config.device_mac_address
              = mac_address}

\* Pica::get_device_mut_by_mac_and_session_id: the handles `find` may return.
get_device_mut_by_mac_and_session_id(mac_address, session_id) ==
    {h \in DOMAIN devices :
        /\ session_id \in DOMAIN devices[h].sessions
        /\ LET session == devices[h].sessions[session_id]
           IN  /\ session.app_config.device_mac_address = mac_address
               /\ session.state = "Active"}

\* make_measurement
make_measurement(mac_address, local, remote) ==
    [mac_address |-> mac_address, status |-> "Ok",
     distance |-> local.distance,
     aoa |-> local.bearing, aoa_destination |-> remote.bearing]

RECURSIVE Measurements(_, _, _, _)
\* Pica::ranging, the for_each over the destinations: the measurement vectors
\* a round may produce (one per way `find` may pick among matching peers).
Measurements(position, app_config, session_id, dst) ==
    IF dst = <<>> THEN {<<>>}
    ELSE LET mac_address == Head(dst)
             toAnchor ==
                 IF mac_address \in DOMAIN anchors
                 THEN {<<make_measurement(mac_address,
                          compute_range_azimuth_elevation(position,
                                                          anchors[mac_address]),
                          compute_range_azimuth_elevation(anchors[mac_address],
                                                          position))>>}
                 ELSE {<<>>}
             peers == get_device_by_mac(mac_address, app_config, session_id)
             toPeer ==
                 IF peers = {} THEN {<<>>}
                 ELSE {<<make_measurement(mac_address,
                          compute_range_azimuth_elevation(position,
                                                          devices[p].position),
                          compute_range_azimuth_elevation(devices[p].position,
                                                          position))>> :
                       p \in peers}
         IN  {a \o b \o rest :
                a \in toAnchor, b \in toPeer,
                rest \in Measurements(position, app_config, session_id,
                                      Tail(dst))}

(***************************************************************************)
(* The Control Core: its position, and sends to a device's outbound queue. *)
(***************************************************************************)
\* Awaiting self.rx.recv() in Pica::run.
Receiving == [pc |-> "recv"]
\* A panic has unwound the core task.
Panicked == [pc |-> "panic"]
\* Awaiting device.tx.send(pkt) on a full queue; `then` names the session whose
\* sequence number is incremented once the send returns (0: none), `fatal`
\* whether the send's error is unwrapped.
Sending(device_handle, pkt, then, fatal) ==
    [pc |-> "send", device_handle |-> device_handle, pkt |-> pkt,
     then |-> then, fatal |-> fatal]

\* The core has received the command at the head of the inbound channel.
CoreAt(type) ==
    /\ core.pc = "recv"
    /\ inbound # <<>>
    /\ Head(inbound).type = type

\* Whether the connection task of device_handle has ended (packet_rx dropped).
ReceiverDropped(device_handle) == conn[device_handle].pc \in {"done", "panic"}

\* How device.tx.send(..).await goes: "ok", "full" (it waits) or "closed" (Err).
SendOutcome(device_handle) ==
    IF ReceiverDropped(device_handle) THEN "closed"
    ELSE IF Len(outq[device_handle]) < OutboundCap THEN "ok"
    ELSE "full"

\* A send that puts the packet at the front of the queue.
SendOrLog_Prepends(device_handle, pkt) ==
    LET how == SendOutcome(device_handle)
    IN  /\ outq' = IF how = "ok"
                   THEN [outq EXCEPT ![device_handle] = <<pkt>> \o @]
                   ELSE outq
        /\ core' = IF how = "full" THEN Sending(device_handle, pkt, 0, FALSE)
                   ELSE Receiving

\* device.tx.send(pkt).await.unwrap_or_else(log): the queue and the core after.
SendOrLog(device_handle, pkt) ==
    LET how == SendOutcome(device_handle)
    IN  /\ outq' = IF how = "ok"
                   THEN [outq EXCEPT ![device_handle] = Append(@, pkt)]
                   ELSE outq
        /\ core' = IF how = "full" THEN Sending(device_handle, pkt, 0, FALSE)
                   ELSE Receiving

(***************************************************************************)
(* The Control Core: one action per arm of the match in Pica::run.         *)
(***************************************************************************)
NoReply == [status |-> "None"]
Ok == [status |-> "Ok"]
DeviceNotFound(mac_address) ==
    [status |-> "DeviceNotFound", mac_address |-> mac_address]
DeviceAlreadyExists(mac_address) ==
    [status |-> "DeviceAlreadyExists", mac_address |-> mac_address]

\* The command processed last is none the history keeps.
NoCommand == [type |-> "None"]

\* What the history of a command of the given type keeps of the command
\* before it: that command when it is of the same kind of interest.
Before(type) ==
    IF type = "DestroyAnchor" /\ last.type = "CreateAnchor" THEN last
    ELSE IF type = "SetPosition" /\ last.type = "SetPosition"
    THEN [type |-> "SetPosition", mac_address |-> last.mac_address,
          position |-> last.position]
    ELSE NoCommand

\* A step that broadcasts no event and answers no admin command.
NoOutput == events' = <<>> /\ reply' = NoReply

\* pica_cmd_rsp_tx.send(status).unwrap_or_else(log): what the caller receives.
Replied(cmd, status) == IF cmd.reply_rx THEN status ELSE NoReply

\* The connection task as Pica::connect spawns it: at its select!.
Selecting == [pc |-> "select"]

\* A connect that hands the same handle out again.
CounterAfterConnect_Reused == counter

\* Pica::connect, line 478: self.counter += 1
CounterAfterConnect == counter + 1

\* Pica::connect
connect ==
    /\ CoreAt("Connect")
    /\ LET device_handle == counter
           device == DeviceNew(device_handle)
       IN  /\ counter' = CounterAfterConnect
           /\ events' = <<DeviceAdded("Uci", device.mac_address, device.position)>>
           /\ devices' = Put(devices, device_handle, device)
           /\ outq' = Put(outq, device_handle, <<>>)
           /\ conn' = Put(conn, device_handle, Selecting)
           /\ discSent' = Put(discSent, device_handle, 0)
    /\ inbound' = Tail(inbound)
    /\ reply' = NoReply
    /\ last' = NoCommand
    /\ UNCHANGED <<anchors, ticks, core, gone, wireVars>>

\* Pica::disconnect
disconnect ==
    /\ CoreAt("Disconnect")
    /\ LET device_handle == Head(inbound).device_handle
       IN  /\ IF device_handle \in DOMAIN devices
              THEN /\ events' = <<DeviceRemoved("Uci",
                                     devices[device_handle].mac_address)>>
                   /\ devices' = Remove(devices, device_handle)
                   /\ ticks' = DropSessions(device_handle, ticks)
              ELSE /\ events' = <<>>
                   /\ UNCHANGED <<devices, ticks>>
           /\ gone' = gone \cup {device_handle}
    /\ inbound' = Tail(inbound)
    /\ reply' = NoReply
    /\ last' = NoCommand
    /\ UNCHANGED <<anchors, counter, outq, conn, core, discSent, wireVars>>

\* ShortMacTwoWaySessionInfoNtf
SessionInfoNtf(sequence_number, session_id, measurements) ==
    [kind |-> "ShortMacTwoWaySessionInfoNtf",
     sequence_number |-> sequence_number,
     session_token |-> session_id,
     two_way_ranging_measurements |-> measurements]

\* A ranging round that counts its notification twice.
IncrementSequenceNumber_Twice(device_handle, session_id) ==
    [devices EXCEPT ![device_handle].sessions[session_id].sequence_number = @ + 2]

\* Pica::ranging, lines 613-616: session.sequence_number += 1
IncrementSequenceNumber(device_handle, session_id) ==
    [devices EXCEPT ![device_handle].sessions[session_id].sequence_number = @ + 1]

\* Pica::ranging
ranging ==
    /\ CoreAt("Ranging")
    /\ LET device_handle == Head(inbound).device_handle
           session_id == Head(inbound).session_id
       IN  IF \/ device_handle \notin DOMAIN devices
              \/ session_id \notin DOMAIN devices[device_handle].sessions
           THEN \* get_device(..).unwrap() or get_session(..).unwrap() on None
                /\ core' = Panicked
                /\ UNCHANGED <<devices, outq>>
           ELSE LET device == devices[device_handle]
                    session == device.sessions[session_id]
                IN  \E measurements \in
                          Measurements(device.position, session.app_config,
                              session_id, session.app_config.dst_mac_addresses) :
                       IF session.app_config.ranging_data_ntf # "Disable"
                       THEN LET pkt == SessionInfoNtf(session.sequence_number,
                                           session_id, measurements)
                                how == SendOutcome(device_handle)
                            IN  CASE how = "ok" ->
                                       /\ outq' = [outq EXCEPT ![device_handle] =
                                                      Append(@, pkt)]
                                       /\ devices' = IncrementSequenceNumber(
                                                        device_handle, session_id)
                                       /\ core' = Receiving
                                  [] how = "full" ->
                                       /\ core' = Sending(device_handle, pkt,
                                                          session_id, TRUE)
                                       /\ UNCHANGED <<devices, outq>>
                                  [] how = "closed" ->
                                       \* .await.unwrap() on Err
                                       /\ core' = Panicked
                                       /\ UNCHANGED <<devices, outq>>
                       ELSE UNCHANGED <<devices, outq, core>>
    /\ inbound' = Tail(inbound)
    /\ events' = <<>>
    /\ reply' = NoReply
    /\ last' = NoCommand
    /\ UNCHANGED <<anchors, counter, conn, ticks, gone, discSent, wireVars>>

\* The core's pending device.tx.send(..).await returns: the queue has room
\* again, or the receiver is gone.
send_returns ==
    /\ core.pc = "send"
    /\ LET device_handle == core.device_handle
           how == SendOutcome(device_handle)
       IN  /\ how # "full"
           /\ IF how = "ok"
              THEN /\ outq' = [outq EXCEPT ![device_handle] = Append(@, core.pkt)]
                   /\ core' = Receiving
                   /\ devices' = IF core.then # 0
                                 THEN IncrementSequenceNumber(device_handle,
                                                              core.then)
                                 ELSE devices
              ELSE /\ core' = IF core.fatal THEN Panicked ELSE Receiving
                   /\ UNCHANGED <<devices, outq>>
    /\ NoOutput
    /\ UNCHANGED <<anchors, counter, inbound, conn, ticks, histVars, wireVars>>

\* Pica::uci_data
uci_data ==
    /\ CoreAt("UciData")
    /\ LET device_handle == Head(inbound).device_handle
       IN  IF device_handle \in DOMAIN devices
           THEN SendOrLog(device_handle, data_message_snd)
           ELSE UNCHANGED <<outq, core>>
    /\ inbound' = Tail(inbound)
    /\ events' = <<>>
    /\ reply' = NoReply
    /\ last' = NoCommand
    /\ UNCHANGED <<regVars, conn, ticks, gone, discSent, wireVars>>

\* The response packet to a command.
Response(cmd, status) == [kind |-> "Response", status |-> status]

\* Pica::command
command ==
    /\ CoreAt("UciCommand")
    /\ LET device_handle == Head(inbound).device_handle
           cmd == Head(inbound).cmd
       IN  IF device_handle \in DOMAIN devices
           THEN LET r == DeviceCommand(devices[device_handle], cmd)
                IN  /\ devices' = [devices EXCEPT ![device_handle] = r.device]
                    /\ ticks' = (ticks \ ({device_handle} \X r.abort))
                                   \cup ({device_handle} \X r.spawn)
                    /\ SendOrLog(device_handle, Response(cmd, r.status))
           ELSE UNCHANGED <<devices, ticks, outq, core>>
    /\ inbound' = Tail(inbound)
    /\ events' = <<>>
    /\ reply' = NoReply
    /\ last' = NoCommand
    /\ UNCHANGED <<anchors, counter, conn, gone, discSent, wireVars>>

\* An in-band stop that leaves n_active_sessions as it was.
StoppedByInbandSignal_KeepsCount(device, session_id) ==
    [device EXCEPT
        !.sessions[session_id].state = "Idle",
        !.sessions[session_id].reason = "SessionStoppedDueToInbandSignal"]

\* Pica::stop_controlee_ranging, lines 690-699: the device once its session
\* has been stopped by the in-band signal.
StoppedByInbandSignal(device, session_id) ==
    LET n == device.n_active_sessions - 1
    IN  [device EXCEPT
            !.sessions[session_id].state = "Idle",
            !.sessions[session_id].reason = "SessionStoppedDueToInbandSignal",
            !.n_active_sessions = n,
            !.state = IF n = 0 THEN "Ready" ELSE @]

\* An in-band stop that leaves the ranging task running.
stop_ranging_task_Detached(device_handle, session_id) == ticks

\* Pica::stop_controlee_ranging, line 691: session.stop_ranging_task()
stop_ranging_task(device_handle, session_id) ==
    ticks \ {<<device_handle, session_id>>}

\* Pica::stop_controlee_ranging
stop_controlee_ranging ==
    /\ CoreAt("StopRanging")
    /\ LET mac_address == Head(inbound).mac_address
           session_id == Head(inbound).session_id
           found == get_device_mut_by_mac_and_session_id(mac_address, session_id)
       IN  IF found # {}
           THEN \E device_handle \in found :
                   /\ ticks' = stop_ranging_task(device_handle, session_id)
                   /\ devices' = [devices EXCEPT ![device_handle] =
                                     StoppedByInbandSignal(@, session_id)]
           ELSE UNCHANGED <<devices, ticks>>
    /\ inbound' = Tail(inbound)
    /\ events' = <<>>
    /\ reply' = NoReply
    /\ last' = NoCommand
    /\ UNCHANGED <<anchors, counter, outq, conn, core, gone, discSent, wireVars>>

(***************************************************************************)
(* The Control Core: the admin commands.                                   *)
(***************************************************************************)
\* Pica::init_uci_device
init_uci_device ==
    /\ CoreAt("InitUciDevice")
    /\ LET cmd == Head(inbound)
           found == get_device_mut_by_mac(cmd.mac_address)
       IN  IF found # {}
           THEN \E device_handle \in found :
                   /\ devices' = [devices EXCEPT
                         ![device_handle].mac_address = cmd.mac_address,
                         ![device_handle].position = cmd.position]
                   /\ reply' = Replied(cmd, Ok)
           ELSE /\ devices' = devices
                /\ reply' = Replied(cmd, DeviceNotFound(cmd.mac_address))
    /\ inbound' = Tail(inbound)
    /\ events' = <<>>
    /\ last' = NoCommand
    /\ UNCHANGED <<anchors, counter, outq, conn, ticks, core, gone, discSent,
                   wireVars>>

RECURSIVE Concat(_)
\* The concatenation of a sequence of sequences.
Concat(ss) == IF ss = <<>> THEN <<>> ELSE Head(ss) \o Concat(Tail(ss))

\* Pica::update_position, the update_neighbors closure.
update_neighbors(category, mac_address, position, device_category, device_mac_address, device_position) ==
    IF mac_address # device_mac_address
    THEN <<NeighborUpdated(category, mac_address,
                           device_category, device_mac_address,
                           compute_range_azimuth_elevation(position,
                                                           device_position)),
           NeighborUpdated(device_category, device_mac_address,
                           category, mac_address,
                           compute_range_azimuth_elevation(device_position,
                                                           position))>>
    ELSE <<>>

\* An update that broadcasts no DeviceUpdated event.
update_position_Silent(devs, anchs, mac_address, position) == <<>>

\* Pica::update_position over the registry (devs, anchs): the events it
\* broadcasts (devices by handle, anchors by mac), or <<>> when it fails.
update_position(devs, anchs, mac_address, position) ==
    LET category ==
            IF mac_address \in DOMAIN anchs THEN "Anchor"
            ELSE IF \E h \in DOMAIN devs : devs[h].mac_address = mac_address
            THEN "Uci"
            ELSE "None"
        hs == SeqOf(DOMAIN devs)
        ms == SeqOf(DOMAIN anchs)
    IN  IF category = "None" THEN <<>>
        ELSE <<DeviceUpdated(category, mac_address, position)>>
             \o Concat([i \in 1..Len(hs) |->
                    update_neighbors(category, mac_address, position, "Uci",
                        devs[hs[i]].mac_address, devs[hs[i]].position)])
             \o Concat([i \in 1..Len(ms) |->
                    update_neighbors(category, mac_address, position, "Anchor",
                        ms[i], anchs[ms[i]])])

\* Pica::set_position
set_position ==
    /\ CoreAt("SetPosition")
    /\ LET cmd == Head(inbound)
           found == get_device_mut_by_mac(cmd.mac_address)
       IN  /\ IF found # {}
              THEN /\ \E device_handle \in found :
                         devices' = [devices EXCEPT
                             ![device_handle].position = cmd.position]
                   /\ anchors' = anchors
              ELSE IF cmd.mac_address \in DOMAIN anchors
              THEN /\ anchors' = [anchors EXCEPT ![cmd.mac_address] = cmd.position]
                   /\ devices' = devices
              ELSE UNCHANGED <<devices, anchors>>
           /\ IF found # {} \/ cmd.mac_address \in DOMAIN anchors
              THEN /\ events' = update_position(devices', anchors',
                                                cmd.mac_address, cmd.position)
                   /\ reply' = Replied(cmd, Ok)
              ELSE /\ events' = <<>>
                   /\ reply' = Replied(cmd, DeviceNotFound(cmd.mac_address))
    /\ inbound' = Tail(inbound)
    /\ last' = [type |-> "SetPosition", mac_address |-> Head(inbound).mac_address,
                position |-> Head(inbound).position,
                prev |-> Before("SetPosition")]
    /\ UNCHANGED <<counter, outq, conn, ticks, core, gone, discSent, wireVars>>

\* Pica::create_anchor
create_anchor ==
    /\ CoreAt("CreateAnchor")
    /\ LET cmd == Head(inbound)
       IN  IF get_category(cmd.mac_address) # "None"
           THEN /\ reply' = Replied(cmd, DeviceAlreadyExists(cmd.mac_address))
                /\ events' = <<>>
                /\ anchors' = anchors
           ELSE /\ events' = <<DeviceAdded("Anchor", cmd.mac_address,
                                           cmd.position)>>
                /\ anchors' = Put(anchors, cmd.mac_address, cmd.position)
                /\ reply' = Replied(cmd, Ok)
    /\ inbound' = Tail(inbound)
    /\ last' = [type |-> "CreateAnchor", mac_address |-> Head(inbound).mac_address,
                devices |-> devices, anchors |-> anchors]
    /\ UNCHANGED <<devices, counter, outq, conn, ticks, core, gone, discSent,
                   wireVars>>

\* A removal that leaves the anchor in place.
anchors_remove_Kept(mac_address) == anchors

\* A removal that clears the whole map.
anchors_remove_All(mac_address) == EmptyMap

\* Pica::destroy_anchor, line 850: self.anchors.remove(&mac_address)
anchors_remove(mac_address) == Remove(anchors, mac_address)

\* Pica::destroy_anchor
destroy_anchor ==
    /\ CoreAt("DestroyAnchor")
    /\ LET cmd == Head(inbound)
       IN  IF cmd.mac_address \notin DOMAIN anchors
           THEN /\ reply' = Replied(cmd, DeviceNotFound(cmd.mac_address))
                /\ events' = <<>>
                /\ anchors' = anchors
           ELSE /\ anchors' = anchors_remove(cmd.mac_address)
                /\ events' = <<DeviceRemoved("Anchor", cmd.mac_address)>>
                /\ reply' = Replied(cmd, Ok)
    /\ inbound' = Tail(inbound)
    /\ last' = [type |-> "DestroyAnchor", mac_address |-> Head(inbound).mac_address,
                prev |-> Before("DestroyAnchor")]
    /\ UNCHANGED <<devices, counter, outq, conn, ticks, core, gone, discSent,
                   wireVars>>

\* Pica::get_state: the snapshot, anchors first.
Snapshot ==
    LET ms == SeqOf(DOMAIN anchors)
        hs == SeqOf(DOMAIN devices)
    IN  [i \in 1..Len(ms) |-> <<"Anchor", ms[i], anchors[ms[i]]>>]
        \o [i \in 1..Len(hs) |->
              <<"Uci", devices[hs[i]].mac_address, devices[hs[i]].position>>]

\* Pica::get_state
get_state ==
    /\ CoreAt("GetState")
    /\ IF Head(inbound).reply_rx
       THEN /\ reply' = [status |-> "State", state |-> Snapshot]
            /\ core' = Receiving
       ELSE \* state_tx.send(..).unwrap() on Err
            /\ reply' = NoReply
            /\ core' = Panicked
    /\ inbound' = Tail(inbound)
    /\ events' = <<>>
    /\ last' = NoCommand
    /\ UNCHANGED <<regVars, outq, conn, ticks, gone, discSent, wireVars>>

(***************************************************************************)
(* The connection task spawned by Pica::connect (lines 493-535).           *)
(***************************************************************************)
\* The process is up: a panic of the core task ends the run.
Running == core.pc # "panic"

\* pica_tx.send(msg).await in the connection task: the send completes when
\* the inbound channel has room, and the task waits (`waiting`) when not.
ConnSend(device_handle, msg, waiting) ==
    IF Len(inbound) < InboundCap
    THEN /\ inbound' = Append(inbound, msg)
         /\ conn' = conn
    ELSE /\ inbound' = inbound
         /\ conn' = [conn EXCEPT ![device_handle] = waiting]

\* Lines 531-534, after `break 'outer`: send Disconnect(device_handle) and end,
\* dropping packet_rx and what it still holds; q is the outbound queue by then.
Leave(device_handle, q) ==
    IF Len(inbound) < InboundCap
    THEN /\ inbound' = Append(inbound, [type |-> "Disconnect",
                                        device_handle |-> device_handle])
         /\ conn' = [conn EXCEPT ![device_handle] = [pc |-> "done"]]
         /\ discSent' = [discSent EXCEPT ![device_handle] = @ + 1]
         /\ outq' = [q EXCEPT ![device_handle] = <<>>]
    ELSE /\ conn' = [conn EXCEPT ![device_handle] = [pc |-> "exit"]]
         /\ outq' = q
         /\ UNCHANGED <<inbound, discSent>>

\* Lines 507-513: a command read from the host is forwarded to the core.
ReadCommand(device_handle, cmd) ==
    /\ Running
    /\ conn[device_handle] = Selecting
    /\ ConnSend(device_handle,
                [type |-> "UciCommand", device_handle |-> device_handle,
                 cmd |-> cmd],
                [pc |-> "fwd", msg |-> [type |-> "UciCommand",
                                        device_handle |-> device_handle,
                                        cmd |-> cmd]])
    /\ NoOutput
    /\ UNCHANGED <<regVars, outq, ticks, core, histVars, wireVars>>

\* Every host has read what its device had sent.
HostsHaveRead == \A h \in DOMAIN outq : outq[h] = <<>>

\* The sessions of all devices.
SessionsAlive ==
    {hs \in (DOMAIN devices) \X SessionIds : hs[2] \in DOMAIN devices[hs[1]].sessions}

\* A host sends one of the commands of the model: once it has read what its
\* device had sent, at most MaxInflight commands being in flight and at most
\* MaxSessionsAlive sessions being open.
host_command(device_handle) ==
    /\ Len(inbound) < MaxInflight
    /\ HostsHaveRead
    /\ \E cmd \in HostCommands :
          /\ cmd.op = "SessionInit" => Cardinality(SessionsAlive) < MaxSessionsAlive
          /\ ReadCommand(device_handle, cmd)

\* A host sends GetDeviceInfo commands back to back.
host_pipelines(device_handle) ==
    ReadCommand(device_handle, [op |-> "GetDeviceInfo"])

\* Lines 514-516: a data packet read from the host is forwarded to the core.
host_data(device_handle) ==
    /\ Running
    /\ conn[device_handle] = Selecting
    /\ Len(inbound) < MaxInflight
    /\ ConnSend(device_handle,
                [type |-> "UciData", device_handle |-> device_handle],
                [pc |-> "fwd", msg |-> [type |-> "UciData",
                                        device_handle |-> device_handle]])
    /\ NoOutput
    /\ UNCHANGED <<regVars, outq, ticks, core, histVars, wireVars>>

\* Lines 512 and 515, the send that waited completes.
conn_forwards(device_handle) ==
    /\ Running
    /\ conn[device_handle].pc = "fwd"
    /\ Len(inbound) < InboundCap
    /\ inbound' = Append(inbound, conn[device_handle].msg)
    /\ conn' = [conn EXCEPT ![device_handle] = Selecting]
    /\ NoOutput
    /\ UNCHANGED <<regVars, outq, ticks, core, histVars, wireVars>>

\* Lines 517-518: a command that fails to parse is answered on the socket by
\* the task itself; connection.write(..).await.unwrap() panics the task when
\* the write fails.
host_bad_command(device_handle) ==
    /\ Running
    /\ conn[device_handle] = Selecting
    /\ \E written \in BOOLEAN :
          IF written
          THEN UNCHANGED <<conn, outq>>
          ELSE /\ conn' = [conn EXCEPT ![device_handle] = [pc |-> "panic"]]
               /\ outq' = [outq EXCEPT ![device_handle] = <<>>]
    /\ NoOutput
    /\ UNCHANGED <<regVars, inbound, ticks, core, histVars, wireVars>>

\* Line 521: connection.read() fails (read error, malformed header, or the
\* stream closed).
read_fails(device_handle) ==
    /\ Running
    /\ conn[device_handle] = Selecting
    /\ Leave(device_handle, outq)
    /\ NoOutput
    /\ UNCHANGED <<regVars, ticks, core, gone, last, wireVars>>

\* Lines 525-528: a packet of the outbound queue is written to the socket;
\* the loop ends when the write fails.
conn_writes(device_handle) ==
    /\ Running
    /\ conn[device_handle] = Selecting
    /\ outq[device_handle] # <<>>
    /\ LET q == [outq EXCEPT ![device_handle] = Tail(@)]
       IN  \E written \in BOOLEAN :
              IF written
              THEN /\ outq' = q
                   /\ UNCHANGED <<inbound, conn, discSent>>
              ELSE Leave(device_handle, q)
    /\ NoOutput
    /\ UNCHANGED <<regVars, ticks, core, gone, last, wireVars>>

\* Lines 531-534, the Disconnect send that waited completes.
conn_leaves(device_handle) ==
    /\ Running
    /\ conn[device_handle].pc = "exit"
    /\ Len(inbound) < InboundCap
    /\ Leave(device_handle, outq)
    /\ NoOutput
    /\ UNCHANGED <<regVars, ticks, core, gone, last, wireVars>>

(***************************************************************************)
(* The producers of the inbound channel other than connection tasks.       *)
(***************************************************************************)
\* The Connect commands on the inbound channel.
ConnectsQueued == Cardinality({i \in 1..Len(inbound) : inbound[i].type = "Connect"})

\* The listener accepts a host connection and sends Connect.
listen ==
    /\ Running
    /\ Len(inbound) < MaxInflight
    /\ counter + ConnectsQueued < MaxConnects
    /\ inbound' = Append(inbound, [type |-> "Connect"])
    /\ NoOutput
    /\ UNCHANGED <<regVars, outq, conn, ticks, core, histVars, wireVars>>

\* Whether Ranging(device_handle, session_id) is on the inbound channel.
RangingQueued(device_handle, session_id) ==
    \E i \in 1..Len(inbound) :
        inbound[i] = [type |-> "Ranging", device_handle |-> device_handle,
                      session_id |-> session_id]

\* The ranging tick task of a session: its timer fires and it sends
\* Ranging(device_handle, session_id). The interval is long enough for the
\* host to have read what its device had sent and for the previous tick to
\* have been handled, and the model stops ranging a session at MaxSeq.
tick(device_handle, session_id) ==
    /\ Running
    /\ <<device_handle, session_id>> \in ticks
    /\ Len(inbound) < InboundCap
    /\ ~RangingQueued(device_handle, session_id)
    /\ HostsHaveRead
    /\ device_handle \in DOMAIN devices
          /\ session_id \in DOMAIN devices[device_handle].sessions
          => devices[device_handle].sessions[session_id].sequence_number < MaxSeq
    /\ inbound' = Append(inbound, [type |-> "Ranging",
                                   device_handle |-> device_handle,
                                   session_id |-> session_id])
    /\ NoOutput
    /\ UNCHANGED <<regVars, outq, conn, ticks, core, histVars, wireVars>>

\* A controller signals, as part of a ranging round, an in-band stop to the
\* controlee mac_address.
inband_stop(mac_address, session_id) ==
    /\ Running
    /\ Len(inbound) < MaxInflight
    /\ HostsHaveRead
    /\ ticks # {}
    /\ inbound' = Append(inbound, [type |-> "StopRanging",
                                   mac_address |-> mac_address,
                                   session_id |-> session_id])
    /\ NoOutput
    /\ UNCHANGED <<regVars, outq, conn, ticks, core, histVars, wireVars>>

\* The admin commands of the model.
AdminCommands ==
    [type : {"InitUciDevice", "SetPosition", "CreateAnchor"},
     mac_address : Macs, position : Positions, reply_rx : BOOLEAN]
    \cup [type : {"DestroyAnchor"}, mac_address : Macs, reply_rx : BOOLEAN]
    \cup [type : {"GetState"}, reply_rx : BOOLEAN]

\* An admin client sends a command.
admin(cmd) ==
    /\ Running
    /\ Len(inbound) < MaxInflight
    /\ inbound' = Append(inbound, cmd)
    /\ NoOutput
    /\ UNCHANGED <<regVars, outq, conn, ticks, core, histVars, wireVars>>

\* Connection::write is not running.
WriteIdle == [pc |-> "idle"]
\* The connection task has handed no packet to parse_uci_packet yet.
NothingHandled == [bytes |-> <<>>]

\* Connection::read is not running: `packet` is what its last call returned,
\* `sent` the logical packet the host has sent last, `sends` how many it has
\* sent and `reads` how many calls have returned since, `handled` the last
\* packet the task has parsed, with the result.
ReadIdle == [pc |-> "idle", packet |-> <<>>, sent |-> <<>>, sends |-> 0, reads |-> 0, handled |-> NothingHandled]

(***************************************************************************)
(* Connection::write (lines 131-180): framing and segmentation.            *)
(***************************************************************************)
\* Line 51
HEADER_SIZE == 4
\* Line 53
MAX_CTRL_PACKET_PAYLOAD_SIZE == 255
\* Line 55
MAX_DATA_PACKET_PAYLOAD_SIZE == 1024
\* Line 150
PBF_MASK == 16

\* The PBF bit of a header byte: 1 is NotComplete, 0 is Complete.
PbfOf(byte) == (byte \div PBF_MASK) % 2

\* get_message_type: bits 7..5 of the first header byte; a value that is no
\* message type reads as Command.
get_message_type(byte) ==
    LET mt == (byte \div 32) % 8
    IN  CASE mt = 0 -> "Data"
          [] mt = 2 -> "Response"
          [] mt = 3 -> "Notification"
          [] OTHER -> "Command"

\* A segmentation that marks a segment NotComplete when it takes all that
\* is left, too.
Segment_EagerFlag(header_bytes, packet) ==
    LET message_type == get_message_type(header_bytes[1])
        chunk_length ==
            Min({Len(packet),
                 IF message_type = "Data" THEN MAX_DATA_PACKET_PAYLOAD_SIZE
                 ELSE MAX_CTRL_PACKET_PAYLOAD_SIZE})
        pbf == IF chunk_length <= Len(packet) /\ chunk_length > 0 THEN 1 ELSE 0
        cleared == header_bytes[1] - ((header_bytes[1] \div PBF_MASK) % 2) * PBF_MASK
        first == cleared + pbf * PBF_MASK
    IN  [chunk_length |-> chunk_length,
         header_bytes |->
            IF message_type = "Data"
            THEN <<first, header_bytes[2], chunk_length % 256, chunk_length \div 256>>
            ELSE <<first, header_bytes[2], header_bytes[3], chunk_length % 256>>]

\* Lines 136-160: the chunk length of the next segment of `packet` (the
\* payload still to send) and its header, made from the previous one.
Segment(header_bytes, packet) ==
    LET message_type == get_message_type(header_bytes[1])
        chunk_length ==
            Min({Len(packet),
                 IF message_type = "Data" THEN MAX_DATA_PACKET_PAYLOAD_SIZE
                 ELSE MAX_CTRL_PACKET_PAYLOAD_SIZE})
        pbf == IF chunk_length < Len(packet) THEN 1 ELSE 0
        cleared == header_bytes[1] - ((header_bytes[1] \div PBF_MASK) % 2) * PBF_MASK
        first == cleared + pbf * PBF_MASK
    IN  [chunk_length |-> chunk_length,
         header_bytes |->
            IF message_type = "Data"
            THEN <<first, header_bytes[2], chunk_length % 256, chunk_length \div 256>>
            ELSE <<first, header_bytes[2], header_bytes[3], chunk_length % 256>>]

\* TcpStream::try_write(buf): the socket takes what its send buffer has room
\* for and says how much (Ok(n)), or fails with WouldBlock when it has none.
try_write(buf) ==
    IF sock = 0
    THEN {[ok |-> FALSE, n |-> 0]} \cup
         (IF buf = <<>> THEN {[ok |-> TRUE, n |-> 0]} ELSE {})
    ELSE {[ok |-> TRUE, n |-> Min({Len(buf), sock})]}

\* A packet as the core builds it: header and payload.
Packet(first, payload_length) ==
    <<first, 1, 0, payload_length % 256>> \o [i \in 1..payload_length |-> i % 251]

\* The packets written in the model: a data packet and a notification (its
\* caller leaves the PBF bit set), with payloads that are empty, short, as
\* long as a segment holds, or one byte longer.
WirePackets ==
    {Packet(113, n) : n \in {0, 2, MAX_CTRL_PACKET_PAYLOAD_SIZE,
                             MAX_CTRL_PACKET_PAYLOAD_SIZE + 1}}
    \cup {Packet(0, n) : n \in {2, MAX_DATA_PACKET_PAYLOAD_SIZE,
                                MAX_DATA_PACKET_PAYLOAD_SIZE + 1}}

\* No call of Connection::write yet.
NothingEmitted == [packet |-> <<>>, segments |-> <<>>]

\* Lines 494-500: the connection task creates the capture file before its
\* loop, when a capture directory is configured.
attach_capture ==
    /\ ~pcapng_file
    /\ wr = WriteIdle /\ writes = <<>>
    /\ rd = ReadIdle /\ stream = <<>>
    /\ pcapng_file' = TRUE
    /\ tap' = <<>>
    /\ NoOutput
    /\ UNCHANGED <<regVars, chanVars, histVars, wire, wr, sock, writes, emitted,
                   stream, rd>>

\* Lines 136-169: the next segment of `packet` is formed and, with a capture
\* file, recorded (pcapng_file.write(.., Direction::Rx).await?); `recorded`
\* says whether that write went through.
form_segment(header_bytes, packet, recorded) ==
    LET seg == Segment(header_bytes, packet)
    IN  IF recorded
        THEN /\ wr' = [pc |-> "header", header_bytes |-> seg.header_bytes,
                       packet |-> packet, chunk_length |-> seg.chunk_length]
             /\ tap' = IF pcapng_file
                       THEN <<[direction |-> "Rx", by |-> "write",
                               bytes |-> seg.header_bytes
                                         \o SubSeq(packet, 1, seg.chunk_length)]>>
                       ELSE <<>>
             /\ writes' = writes
        ELSE /\ wr' = WriteIdle
             /\ tap' = <<>>
             /\ writes' = Append(writes, "Err")

\* Whether the record of a segment goes through: always without a capture
\* file, and either way with one.
Recorded == IF pcapng_file THEN BOOLEAN ELSE {TRUE}

\* Lines 132-133 and the first pass of lines 136-169.
write(packet) ==
    /\ wr = WriteIdle
    /\ rd.pc = "idle"
    /\ Len(writes) < MaxWrites
    /\ \A i \in 1..Len(writes) : writes[i] = "Ok"
    /\ emitted' = [packet |-> packet, segments |-> <<>>]
    /\ \E recorded \in Recorded :
          form_segment(<<packet[1], packet[2], packet[3], 0>>,
                       SubSeq(packet, HEADER_SIZE + 1, Len(packet)), recorded)
    /\ NoOutput
    /\ UNCHANGED <<regVars, chanVars, histVars, wire, sock, pcapng_file, stream, rd>>

\* Line 172: self.socket.try_write(&header_bytes)?
write_header ==
    /\ wr.pc = "header"
    /\ \E r \in try_write(wr.header_bytes) :
          IF r.ok
          THEN /\ wire' = wire \o SubSeq(wr.header_bytes, 1, r.n)
               /\ sock' = sock - r.n
               /\ wr' = [wr EXCEPT !.pc = "payload"]
               /\ writes' = writes
          ELSE /\ wr' = WriteIdle
               /\ writes' = Append(writes, "Err")
               /\ UNCHANGED <<wire, sock>>
    /\ tap' = <<>>
    /\ NoOutput
    /\ UNCHANGED <<regVars, chanVars, histVars, emitted, pcapng_file, stream, rd>>

\* Lines 173-178: self.socket.try_write(&packet[..chunk_length])?, then the
\* return or the next pass of the loop.
write_payload ==
    /\ wr.pc = "payload"
    /\ \E r \in try_write(SubSeq(wr.packet, 1, wr.chunk_length)) :
          IF r.ok
          THEN LET packet == SubSeq(wr.packet, wr.chunk_length + 1, Len(wr.packet))
               IN  /\ wire' = wire \o SubSeq(wr.packet, 1, r.n)
                   /\ sock' = sock - r.n
                   /\ emitted' = [emitted EXCEPT !.segments =
                          Append(@, [header_bytes |-> wr.header_bytes,
                                     payload |-> SubSeq(wr.packet, 1,
                                                        wr.chunk_length)])]
                   /\ IF packet = <<>>
                      THEN /\ wr' = WriteIdle
                           /\ writes' = Append(writes, "Ok")
                           /\ tap' = <<>>
                      ELSE \E recorded \in Recorded :
                              form_segment(wr.header_bytes, packet, recorded)
          ELSE /\ wr' = WriteIdle
               /\ writes' = Append(writes, "Err")
               /\ tap' = <<>>
               /\ UNCHANGED <<wire, sock, emitted>>
    /\ NoOutput
    /\ UNCHANGED <<regVars, chanVars, histVars, pcapng_file, stream, rd>>

\* The host reads from its end of the stream: room comes back.
host_reads ==
    /\ \E room \in (sock + 1)..SockBuf : sock' = room
    /\ tap' = <<>>
    /\ NoOutput
    /\ UNCHANGED <<regVars, chanVars, histVars, wire, wr, writes, emitted,
                   pcapng_file, stream, rd>>

(***************************************************************************)
(* Connection::read (lines 75-127): reassembly.                            *)
(***************************************************************************)
RECURSIVE SegmentsFrom(_, _)
\* The loop of Connection::write (lines 135-179) on a socket that takes all
\* it is offered: the segments of `packet` (the payload still to send).
SegmentsFrom(header_bytes, packet) ==
    LET seg == Segment(header_bytes, packet)
        rest == SubSeq(packet, seg.chunk_length + 1, Len(packet))
    IN  <<[header_bytes |-> seg.header_bytes,
           payload |-> SubSeq(packet, 1, seg.chunk_length)]>>
        \o (IF rest = <<>> THEN <<>> ELSE SegmentsFrom(seg.header_bytes, rest))

\* The bytes Connection::write(packet) puts on such a socket.
WrittenBytes(packet) ==
    LET segs == SegmentsFrom(<<packet[1], packet[2], packet[3], 0>>,
                             SubSeq(packet, HEADER_SIZE + 1, Len(packet)))
    IN  Concat([i \in 1..Len(segs) |-> segs[i].header_bytes \o segs[i].payload])

\* A read that keeps the first header of a reassembled packet.
AfterSegment_FirstHeader(complete_packet, header, payload_bytes) ==
    (IF Len(complete_packet) = HEADER_SIZE THEN header
     ELSE SubSeq(complete_packet, 1, HEADER_SIZE))
    \o SubSeq(complete_packet, HEADER_SIZE + 1, Len(complete_packet))
    \o payload_bytes

\* A read that keeps the payload of the last segment only.
AfterSegment_LastPayload(complete_packet, header, payload_bytes) ==
    header \o payload_bytes

\* Lines 85-87 and 104-106: complete_packet once a segment's header has been
\* read over its first HEADER_SIZE bytes and the payload appended.
AfterSegment(complete_packet, header, payload_bytes) ==
    header \o SubSeq(complete_packet, HEADER_SIZE + 1, Len(complete_packet))
           \o payload_bytes

\* Lines 92-103: the payload length a segment header announces.
PayloadLength(header) ==
    IF get_message_type(header[1]) = "Data"
    THEN header[3] + 256 * header[4]
    ELSE header[4]

\* The host sends `packet`, segmented as Connection::write segments.
peer_writes(packet) ==
    /\ wr = WriteIdle /\ writes = <<>>
    /\ rd.pc = "idle"
    /\ stream = <<>>
    /\ rd.sends < MaxWrites
    /\ stream' = WrittenBytes(packet)
    /\ rd' = [rd EXCEPT !.sent = packet, !.sends = @ + 1, !.reads = 0,
                        !.packet = <<>>]
    /\ tap' = <<>>
    /\ NoOutput
    /\ UNCHANGED <<regVars, chanVars, histVars, wire, wr, sock, writes, emitted,
                   pcapng_file>>

\* A control segment as a host may send it: message type mt, group g, opcode
\* o, the PBF bit, one payload byte.
ControlSegment(mt, g, o, pbf, byte) ==
    [header_bytes |-> <<mt * 32 + pbf * PBF_MASK + g, o, 0, 1>>, payload |-> <<byte>>]

\* The control packets a host sends in segments of its own making: one to
\* three segments, all but the last NotComplete, every header with a message
\* type, group and opcode of its own.
SegmentTrains ==
    LET headers == {<<mt, g, o>> : mt \in {1, 3}, g \in {1, 2}, o \in {3, 4}}
    IN  UNION {{[i \in 1..n |->
                   ControlSegment(hs[i][1], hs[i][2], hs[i][3],
                                  IF i < n THEN 1 ELSE 0, 100 + i)] :
                hs \in [1..n -> headers]} : n \in 1..3}

\* The host sends the segments of `train` one after the other.
peer_sends_segments(train) ==
    /\ wr = WriteIdle /\ writes = <<>>
    /\ rd.pc = "idle"
    /\ stream = <<>>
    /\ rd.sends < MaxWrites
    /\ LET bytes == Concat([i \in 1..Len(train) |->
                               train[i].header_bytes \o train[i].payload])
       IN  /\ stream' = bytes
           /\ rd' = [rd EXCEPT !.sent = bytes, !.sends = @ + 1, !.reads = 0,
                               !.packet = <<>>]
    /\ tap' = <<>>
    /\ NoOutput
    /\ UNCHANGED <<regVars, chanVars, histVars, wire, wr, sock, writes, emitted,
                   pcapng_file>>

\* Line 76: Connection::read is called.
read ==
    /\ rd.pc = "idle"
    /\ stream # <<>>
    /\ rd' = [rd EXCEPT !.pc = "loop",
                        !.packet = [i \in 1..HEADER_SIZE |-> 0]]
    /\ tap' = <<>>
    /\ NoOutput
    /\ UNCHANGED <<regVars, chanVars, histVars, wire, wr, sock, writes, emitted,
                   pcapng_file, stream>>

\* Lines 84-125: one pass of the loop of Connection::read over a segment the
\* stream holds whole; `recorded` says whether the capture record went through.
read_segment ==
    /\ rd.pc = "loop"
    /\ Len(stream) >= HEADER_SIZE
    /\ LET header == SubSeq(stream, 1, HEADER_SIZE)
           payload_length == PayloadLength(header)
           payload_bytes == SubSeq(stream, HEADER_SIZE + 1,
                                   HEADER_SIZE + payload_length)
           complete_packet == AfterSegment(rd.packet, header, payload_bytes)
       IN  /\ Len(stream) >= HEADER_SIZE + payload_length
           /\ stream' = SubSeq(stream, HEADER_SIZE + payload_length + 1,
                               Len(stream))
           /\ \E recorded \in Recorded :
                 IF recorded
                 THEN /\ tap' = IF pcapng_file
                                THEN <<[direction |-> "Tx", by |-> "read",
                                        bytes |-> header \o payload_bytes]>>
                                ELSE <<>>
                      /\ rd' = IF \/ get_message_type(header[1]) = "Data"
                                  \/ PbfOf(header[1]) = 0
                               THEN [rd EXCEPT !.pc = "idle",
                                               !.packet = complete_packet,
                                               !.reads = @ + 1]
                               ELSE [rd EXCEPT !.packet = complete_packet]
                 ELSE /\ tap' = <<>>
                      /\ rd' = [rd EXCEPT !.pc = "failed", !.packet = <<>>]
    /\ NoOutput
    /\ UNCHANGED <<regVars, chanVars, histVars, wire, wr, sock, writes, emitted,
                   pcapng_file>>

(***************************************************************************)
(* parse_uci_packet (lines 308-357) and the read arm of the connection     *)
(* task (lines 505-522).                                                   *)
(***************************************************************************)
\* GroupId::try_from: the group ids the codec knows (core, session config,
\* session control, data control).
KnownGroupIds == {0, 1, 2, 3}

\* UciStatusCode::UciStatusUnknownGid, as a byte.
UciStatusUnknownGid == 7
\* UciStatusCode::UciStatusUnknownOid, as a byte.
UciStatusUnknownOid == 8
\* u8::from(MessageType::Response)
MessageTypeResponse == 2

\* A codec failure.
ParseError == [ok |-> FALSE]

\* DataPacket::parse and ControlPacket::parse: what the codec may return on
\* bytes. A control packet of an unknown group never parses; one that parses
\* narrows to a command when its message type is Command.
ParseOutcomes(bytes) ==
    LET mt == (bytes[1] \div 32) % 8
        group_id == bytes[1] % 16
    IN  {ParseError} \cup
        (CASE mt = 0 -> {[ok |-> TRUE, packet |-> "Data"]}
           [] mt # 0 /\ group_id \notin KnownGroupIds -> {}
           [] mt = 1 /\ group_id \in KnownGroupIds ->
                 {[ok |-> TRUE, packet |-> "Command", cmd |-> cmd] :
                     cmd \in HostCommands}
           [] OTHER -> {[ok |-> TRUE, packet |-> "Control"]})

Skip == [kind |-> "Skip"]

\* A parse that copies the two header bytes into the response unmasked.
parse_uci_packet_Unmasked(bytes, parsed) ==
    LET message_type == get_message_type(bytes[1])
    IN  IF message_type = "Data"
        THEN IF parsed.ok THEN [kind |-> "UciData"] ELSE Skip
        ELSE IF ~parsed.ok
        THEN LET group_id == bytes[1] % 16
                 status == IF message_type # "Command" THEN 0
                           ELSE IF group_id \in KnownGroupIds
                           THEN UciStatusUnknownOid
                           ELSE UciStatusUnknownGid
             IN  IF status = 0 THEN Skip
                 ELSE [kind |-> "Err",
                       response |-> <<bytes[1], bytes[2], 0, 1, status>>]
        ELSE IF parsed.packet = "Command"
        THEN [kind |-> "UciCommand", cmd |-> parsed.cmd]
        ELSE Skip

\* parse_uci_packet; `parsed` is what the codec returns on bytes.
parse_uci_packet(bytes, parsed) ==
    LET message_type == get_message_type(bytes[1])
    IN  IF message_type = "Data"
        THEN IF parsed.ok THEN [kind |-> "UciData"] ELSE Skip
        ELSE IF ~parsed.ok
        THEN LET group_id == bytes[1] % 16
                 opcode_id == bytes[2] % 64
                 status == IF message_type # "Command" THEN 0
                           ELSE IF group_id \in KnownGroupIds
                           THEN UciStatusUnknownOid
                           ELSE UciStatusUnknownGid
             IN  IF status = 0 THEN Skip
                 ELSE [kind |-> "Err",
                       response |-> <<MessageTypeResponse * 32 + group_id,
                                      opcode_id, 0, 1, status>>]
        ELSE IF parsed.packet = "Command"
        THEN [kind |-> "UciCommand", cmd |-> parsed.cmd]
        ELSE Skip

\* The packets a host sends to be parsed: control packets of every message
\* type (5 names none) in a known and in an unknown group, their opcode byte
\* with its two top bits set, and a data packet.
ParsePackets ==
    {<<mt * 32 + group_id, 195, 0, 1, 9>> : mt \in {1, 2, 3, 5}, group_id \in {1, 8}}
    \cup {<<1, 0, 2, 0, 9, 9>>}

\* The host sends its next packet once the task has handled the last one.
host_sends(packet) == rd.packet = <<>> /\ peer_writes(packet)

\* Lines 505-522: the packet Connection::read has returned is parsed and
\* forwarded to the core, answered on the socket (the first pass of
\* Connection::write; write_header and write_payload go on), or skipped.
dispatch(device_handle) ==
    /\ Running
    /\ conn[device_handle] = Selecting
    /\ rd.pc = "idle" /\ rd.packet # <<>>
    /\ wr = WriteIdle
    /\ \E parsed \in ParseOutcomes(rd.packet) :
          LET result == parse_uci_packet(rd.packet, parsed)
              msg == IF result.kind = "UciCommand"
                     THEN [type |-> "UciCommand", device_handle |-> device_handle,
                           cmd |-> result.cmd]
                     ELSE [type |-> "UciData", device_handle |-> device_handle]
          IN  /\ rd' = [rd EXCEPT !.packet = <<>>,
                                  !.handled = [bytes |-> rd.packet,
                                               parsed |-> parsed,
                                               result |-> result]]
              /\ CASE result.kind \in {"UciCommand", "UciData"} ->
                        /\ ConnSend(device_handle, msg,
                                    [pc |-> "fwd", msg |-> msg])
                        /\ tap' = <<>>
                        /\ UNCHANGED <<wr, writes, emitted>>
                   [] result.kind = "Err" ->
                        /\ emitted' = [packet |-> result.response,
                                       segments |-> <<>>]
                        /\ \E recorded \in Recorded :
                              form_segment(<<result.response[1],
                                             result.response[2],
                                             result.response[3], 0>>,
                                           SubSeq(result.response, HEADER_SIZE + 1,
                                                  Len(result.response)),
                                           recorded)
                        /\ UNCHANGED <<inbound, conn>>
                   [] result.kind = "Skip" ->
                        /\ tap' = <<>>
                        /\ UNCHANGED <<inbound, conn, wr, writes, emitted>>
    /\ NoOutput
    /\ UNCHANGED <<regVars, outq, ticks, core, histVars, wire, sock, pcapng_file,
                   stream>>

(***************************************************************************)
(* One host that sends commands without waiting for the responses, and     *)
(* what its socket receives (lines 505-528).                               *)
(***************************************************************************)
\* UciStatusCode as a byte, for the statuses of the session commands.
StatusByte(status) ==
    CASE status = "Ok" -> 0
      [] status = "SessionNotExist" -> 17
      [] status = "SessionDuplicate" -> 18
      [] status = "SessionActive" -> 19
      [] status = "MaxSessionsExceeded" -> 20
      [] status = "SessionNotConfigured" -> 21
      [] status = "SessionNotActive" -> 22

\* ControlPacket::to_bytes of the response to SessionInit (group 1, opcode
\* 0): the header and the status.
to_bytes(pkt) ==
    <<MessageTypeResponse * 32 + 1, 0, 0, 1, StatusByte(pkt.status)>>

\* The command the host of the model sends again and again: the first is
\* answered Ok, every later one SessionDuplicate.
SessionInitOne == [op |-> "SessionInit", session_id |-> 1]

\* A command of a group the codec does not know, as the host sends it.
BadCommand == <<40, 195, 0, 0>>

\* The responses the socket has taken, five bytes each.
Responses == [i \in 1..(Len(wire) \div 5) |-> SubSeq(wire, 5 * i - 4, 5 * i)]

\* Whether a response is the answer to a command that failed to parse.
IsErrorResponse(bytes) == bytes[5] \in {UciStatusUnknownGid, UciStatusUnknownOid}

\* The host has sent fewer than MaxWrites commands on the connection of
\* device_handle: those waiting for the core, those answered in the queue,
\* those answered on the socket.
MaySend(device_handle) ==
    Cardinality({i \in 1..Len(inbound) :
                    /\ inbound[i].type = "UciCommand"
                    /\ inbound[i].device_handle = device_handle})
      + Len(outq[device_handle]) + Len(Responses) < MaxWrites

\* The host sends SessionInit; it has not sent the command that fails to
\* parse yet. Lines 507-513.
host_inits(device_handle) ==
    /\ MaySend(device_handle)
    /\ \A i \in 1..Len(Responses) : ~IsErrorResponse(Responses[i])
    /\ ReadCommand(device_handle, SessionInitOne)

\* The host sends, after a SessionInit, a command that fails to parse, and
\* the connection task answers it on the socket itself (lines 517-518); the
\* task panics when the write fails.
host_sends_bad(device_handle) ==
    /\ Running
    /\ conn[device_handle] = Selecting
    /\ MaySend(device_handle)
    /\ \/ \E i \in 1..Len(inbound) : inbound[i].type = "UciCommand"
       \/ outq[device_handle] # <<>>
       \/ wire # <<>>
    /\ LET result == parse_uci_packet(BadCommand, ParseError)
       IN  \E written \in BOOLEAN :
              IF written
              THEN /\ wire' = wire \o result.response
                   /\ UNCHANGED <<conn, outq>>
              ELSE /\ conn' = [conn EXCEPT ![device_handle] = [pc |-> "panic"]]
                   /\ outq' = [outq EXCEPT ![device_handle] = <<>>]
                   /\ wire' = wire
    /\ NoOutput
    /\ UNCHANGED <<regVars, inbound, ticks, core, histVars, wr, sock, writes,
                   emitted, pcapng_file, tap, stream, rd>>

\* A receive that takes the packet put on the queue last.
packet_rx_recv_Last(device_handle) ==
    LET q == outq[device_handle]
    IN  [packet |-> q[Len(q)], rest |-> SubSeq(q, 1, Len(q) - 1)]

\* Line 525: packet_rx.recv() on a queue that holds a packet.
packet_rx_recv(device_handle) ==
    [packet |-> Head(outq[device_handle]), rest |-> Tail(outq[device_handle])]

\* Lines 525-528: a packet of the outbound queue is written to the socket,
\* which takes it whole; the loop ends when the write fails.
conn_writes_bytes(device_handle) ==
    /\ Running
    /\ conn[device_handle] = Selecting
    /\ outq[device_handle] # <<>>
    /\ LET got == packet_rx_recv(device_handle)
           q == [outq EXCEPT ![device_handle] = got.rest]
       IN  \E written \in BOOLEAN :
              IF written
              THEN /\ outq' = q
                   /\ wire' = wire \o to_bytes(got.packet)
                   /\ UNCHANGED <<inbound, conn, discSent>>
              ELSE /\ Leave(device_handle, q)
                   /\ wire' = wire
    /\ NoOutput
    /\ UNCHANGED <<regVars, ticks, core, gone, last, wr, sock, writes, emitted,
                   pcapng_file, tap, stream, rd>>

(***************************************************************************)
(* The state after Pica::new, and the specifications.                      *)
(***************************************************************************)

Init ==
    /\ devices = EmptyMap
    /\ anchors = EmptyMap
    /\ counter = 0
    /\ inbound = <<>>
    /\ outq = EmptyMap
    /\ conn = EmptyMap
    /\ ticks = {}
    /\ core = Receiving
    /\ events = <<>>
    /\ reply = NoReply
    /\ gone = {}
    /\ discSent = EmptyMap
    /\ last = NoCommand
    /\ wire = <<>>
    /\ wr = WriteIdle
    /\ sock = SockBuf
    /\ writes = <<>>
    /\ emitted = NothingEmitted
    /\ pcapng_file = FALSE
    /\ tap = <<>>
    /\ stream = <<>>
    /\ rd = ReadIdle

\* Hosts that drive sessions: connections, session commands, ranging ticks,
\* in-band stops, and the end of connections.
Next ==
    \/ listen
    \/ connect
    \/ disconnect
    \/ command
    \/ ranging
    \/ stop_controlee_ranging
    \/ send_returns
    \/ \E h \in DOMAIN conn : host_command(h)
    \/ \E h \in DOMAIN conn : conn_writes(h)
    \/ \E h \in DOMAIN conn : read_fails(h)
    \/ \E t \in ticks : tick(t[1], t[2])
    \/ \E m \in ConfigMacs, s \in SessionIds : inband_stop(m, s)

Spec == Init /\ [][Next]_vars

\* Admin clients that edit the registry while hosts connect and leave.
NextRegistry ==
    \/ listen
    \/ connect
    \/ disconnect
    \/ init_uci_device
    \/ set_position
    \/ create_anchor
    \/ destroy_anchor
    \/ get_state
    \/ \E cmd \in AdminCommands : admin(cmd)
    \/ \E h \in DOMAIN conn : read_fails(h)

SpecRegistry == Init /\ [][NextRegistry]_vars

\* Hosts that send commands and data back to back, read slowly, send what
\* does not parse, and go away.
NextChan ==
    \/ listen
    \/ connect
    \/ disconnect
    \/ command
    \/ uci_data
    \/ send_returns
    \/ \E h \in DOMAIN conn : host_pipelines(h)
    \/ \E h \in DOMAIN conn : host_data(h)
    \/ \E h \in DOMAIN conn : conn_forwards(h)
    \/ \E h \in DOMAIN conn : host_bad_command(h)
    \/ \E h \in DOMAIN conn : read_fails(h)
    \/ \E h \in DOMAIN conn : conn_writes(h)
    \/ \E h \in DOMAIN conn : conn_leaves(h)

SpecChan == Init /\ [][NextChan]_vars

\* One connection writes packets to a socket whose host reads as it pleases.
NextWire ==
    \/ attach_capture
    \/ \E packet \in WirePackets : write(packet)
    \/ write_header
    \/ write_payload
    \/ host_reads

SpecWire == Init /\ [][NextWire]_vars

\* A host sends packets that parse or do not, and reads the answers.
NextParse ==
    \/ listen
    \/ connect
    \/ \E packet \in ParsePackets : host_sends(packet)
    \/ read
    \/ read_segment
    \/ \E h \in DOMAIN conn : dispatch(h)
    \/ write_header
    \/ write_payload
    \/ host_reads

SpecParse == Init /\ [][NextParse]_vars

\* The anchors an admin client places where sessions range: at the macs the
\* sessions name as destinations.
RoundAnchors ==
    [type : {"CreateAnchor"}, mac_address : {1, 2}, position : {MaxPos},
     reply_rx : {TRUE}]

\* Hosts that drive sessions while an admin client creates anchors.
NextRound ==
    \/ listen
    \/ connect
    \/ command
    \/ ranging
    \/ send_returns
    \/ create_anchor
    \/ \E cmd \in RoundAnchors : admin(cmd)
    \/ \E h \in DOMAIN conn : host_command(h)
    \/ \E h \in DOMAIN conn : conn_writes(h)
    \/ \E t \in ticks : tick(t[1], t[2])

SpecRound == Init /\ [][NextRound]_vars

\* One connection reads control packets its host has segmented itself.
NextSegments ==
    \/ \E train \in SegmentTrains : peer_sends_segments(train)
    \/ read
    \/ read_segment

SpecSegments == Init /\ [][NextSegments]_vars

\* The first host sends commands back to back, one of them unparsable.
NextOrder ==
    \/ listen
    \/ connect
    \/ command
    \/ disconnect
    \/ \E h \in DOMAIN conn \cap {0} : host_inits(h)
    \/ \E h \in DOMAIN conn \cap {0} : host_sends_bad(h)
    \/ \E h \in DOMAIN conn \cap {0} : conn_writes_bytes(h)
    \/ \E h \in DOMAIN conn : read_fails(h)

SpecOrder == Init /\ [][NextOrder]_vars

\* One connection reads the packets its host sends.
NextRead ==
    \/ attach_capture
    \/ \E packet \in WirePackets : peer_writes(packet)
    \/ read
    \/ read_segment

SpecRead == Init /\ [][NextRead]_vars

(***************************************************************************)
(* Properties.                                                             *)
(***************************************************************************)
\* The command the core is about to handle, when it is of one of `types`.
CoreHandles(types) ==
    /\ core.pc = "recv"
    /\ inbound # <<>>
    /\ Head(inbound).type \in types

\* The step takes the command at the head of the inbound channel.
Dequeues == inbound # <<>> /\ inbound' = Tail(inbound)

\* The step puts msg on the inbound channel.
Enqueues(msg) == inbound' = Append(inbound, msg)

HasSession(device_handle, session_id) ==
    /\ device_handle \in DOMAIN devices
    /\ session_id \in DOMAIN devices[device_handle].sessions

IsActive(device_handle, session_id) ==
    /\ HasSession(device_handle, session_id)
    /\ devices[device_handle].sessions[session_id].state = "Active"

\* C1: no mac address is both a key of `anchors` and the mac_address of a
\* device.
C1_MacUniqueness ==
    \A h \in DOMAIN devices : devices[h].mac_address \notin DOMAIN anchors

\* C2: for every device, n_active_sessions is the number of its sessions in
\* state Active, and the device state is Active exactly when it is positive.
C2_ActiveCount ==
    \A h \in DOMAIN devices :
        LET device == devices[h]
            active == {s \in DOMAIN device.sessions :
                          device.sessions[s].state = "Active"}
        IN  /\ device.n_active_sessions = Cardinality(active)
            /\ device.state = "Active" <=> device.n_active_sessions > 0

\* A device that had two Active sessions and has lost one to an in-band stop.
C2_Witness ==
    \E h \in DOMAIN devices :
        /\ devices[h].n_active_sessions = 1
        /\ devices[h].state = "Active"
        /\ \E s \in DOMAIN devices[h].sessions :
              /\ devices[h].sessions[s].state = "Idle"
              /\ devices[h].sessions[s].reason = "SessionStoppedDueToInbandSignal"

\* C3: a ranging tick task is alive for (device, session) exactly when that
\* session exists and is Active; so every exit from Active has cancelled it.
C3_TickIffActive ==
    \A h \in Handles, s \in SessionIds : <<h, s>> \in ticks <=> IsActive(h, s)

\* A session stopped by an in-band signal while another session still ranges.
C3_Witness ==
    /\ ticks # {}
    /\ \E h \in DOMAIN devices : \E s \in DOMAIN devices[h].sessions :
          /\ devices[h].sessions[s].state = "Idle"
          /\ devices[h].sessions[s].reason = "SessionStoppedDueToInbandSignal"
          /\ <<h, s>> \notin ticks

\* C4: once the core has processed Disconnect(h), `devices` has no entry for
\* h and no Ranging(h, _) command is put on the inbound channel.
C4_GoneForGood ==
    [][\A h \in gone' :
          /\ h \notin DOMAIN devices'
          /\ \A s \in SessionIds :
                ~Enqueues([type |-> "Ranging", device_handle |-> h,
                           session_id |-> s])]_vars

\* A device has been disconnected while a tick of one of its sessions was
\* still waiting on the inbound channel.
C4_Witness ==
    \E h \in gone : \E i \in 1..Len(inbound) :
        inbound[i].type = "Ranging" /\ inbound[i].device_handle = h

\* C5: a Ranging(h, s) command dequeued when device h is missing, session s
\* is missing or session s is not Active sends no notification, changes no
\* state and leaves the core running.
C5_StaleRangingIsNoOp ==
    [][(/\ CoreHandles({"Ranging"})
        /\ ~IsActive(Head(inbound).device_handle, Head(inbound).session_id)
        /\ Dequeues)
       => (/\ devices' = devices
           /\ outq' = outq
           /\ core' = Receiving)]_vars

\* C6: whenever the core awaits a send on a device's full outbound queue while
\* the inbound channel is full, some task can still make progress towards
\* the core dequeuing again: the core's send can return, or the connection
\* task of that device can take a packet from its queue or end.
C6_BackpressureRecovers ==
    (core.pc = "send" /\ Len(inbound) = InboundCap)
        => \/ ENABLED send_returns
           \/ ENABLED conn_writes(core.device_handle)
           \/ ENABLED read_fails(core.device_handle)

\* C7: a send to the outbound queue of a device whose connection task has
\* ended, its Disconnect not yet processed, never stops the core, whether the
\* command is UciCommand, UciData or Ranging.
C7_FailedSendNotFatal ==
    [][(/\ CoreHandles({"UciCommand", "UciData", "Ranging"})
        /\ Head(inbound).device_handle \in DOMAIN devices
        /\ ReceiverDropped(Head(inbound).device_handle)
        /\ Head(inbound).type = "Ranging"
              => HasSession(Head(inbound).device_handle,
                            Head(inbound).session_id)
        /\ Dequeues)
       => core'.pc # "panic"]_vars

\* The notification for session_id the step appends to device_handle's
\* outbound queue, as a set (empty when it appends none).
NtfAppended(device_handle, session_id) ==
    IF /\ device_handle \in DOMAIN outq
       /\ device_handle \in DOMAIN outq'
       /\ Len(outq'[device_handle]) = Len(outq[device_handle]) + 1
    THEN LET pkt == outq'[device_handle][Len(outq'[device_handle])]
         IN  IF /\ pkt.kind = "ShortMacTwoWaySessionInfoNtf"
                /\ pkt.session_token = session_id
             THEN {pkt}
             ELSE {}
    ELSE {}

\* C9: every notification enqueued for (device, session) carries the
\* session's sequence_number, which then increases by exactly 1; a step that
\* enqueues none leaves it unchanged, a session whose policy is Disable
\* enqueues none, and a new session starts at 0.
C9_SequenceNumbers ==
    [][\A h \in Handles, s \in SessionIds :
          LET added == NtfAppended(h, s)
              before == devices[h].sessions[s]
              after == devices'[h].sessions[s]
          IN  /\ \A pkt \in added :
                    /\ HasSession(h, s)
                    /\ HasSession(h, s)'
                    /\ before.app_config.ranging_data_ntf # "Disable"
                    /\ pkt.sequence_number = before.sequence_number
                    /\ after.sequence_number = before.sequence_number + 1
              /\ (added = {} /\ HasSession(h, s) /\ HasSession(h, s)')
                    => after.sequence_number = before.sequence_number
              /\ (~HasSession(h, s) /\ HasSession(h, s)')
                    => after.sequence_number = 0]_vars

\* A session has been notified twice (sequence numbers 0 and 1), and a Disable
\* session of the same device is ranging beside it.
C9_Witness ==
    \E h \in DOMAIN devices : \E s, d \in DOMAIN devices[h].sessions :
        /\ devices[h].sessions[s].sequence_number = 2
        /\ devices[h].sessions[d].state = "Active"
        /\ devices[h].sessions[d].app_config.ranging_data_ntf = "Disable"


\* C8: a connection task that has ended has sent exactly one Disconnect, and
\* no task sends more than one; the core is not stopped by it.
C8_OneDisconnect ==
    \A h \in DOMAIN conn :
        /\ discSent[h] <= 1
        /\ conn[h].pc \in {"done", "panic"} => discSent[h] = 1
        /\ conn[h].pc \in {"done", "panic", "exit"} => core.pc # "panic"

\* Whether `bytes` is a concatenation of whole segments: a header of
\* HEADER_SIZE bytes, then as many payload bytes as its length field says.
RECURSIVE WholeSegments(_)
WholeSegments(bytes) ==
    IF bytes = <<>> THEN TRUE
    ELSE IF Len(bytes) < HEADER_SIZE THEN FALSE
    ELSE LET payload_length ==
                 IF get_message_type(bytes[1]) = "Data"
                 THEN bytes[3] + 256 * bytes[4]
                 ELSE bytes[4]
         IN  /\ Len(bytes) >= HEADER_SIZE + payload_length
             /\ WholeSegments(SubSeq(bytes, HEADER_SIZE + payload_length + 1,
                                     Len(bytes)))

\* C10: when every call of Connection::write so far has returned Ok, the
\* bytes on the wire are a concatenation of whole segments, whatever the
\* socket has accepted.
C10_WireIsWholeSegments ==
    (wr = WriteIdle /\ \A i \in 1..Len(writes) : writes[i] = "Ok")
        => WholeSegments(wire)

\* The segments of logical packet P as C11 words them: with payload length L
\* and chunk limit M, max(1, ceil(L / M)) segments, all but the last of M
\* bytes and NotComplete, the last the remainder and Complete, each length
\* field its chunk size, the other header fields the caller's.
SegmentsAsSpecified(P) ==
    LET payload == SubSeq(P, HEADER_SIZE + 1, Len(P))
        L == Len(payload)
        data == (P[1] \div 32) % 8 = 0
        M == IF data THEN 1024 ELSE 255
        n == IF L = 0 THEN 1 ELSE (L + M - 1) \div M
    IN  [i \in 1..n |->
            LET chunk == SubSeq(payload, (i - 1) * M + 1, Min({i * M, L}))
                first == P[1] - PbfOf(P[1]) * 16 + (IF i < n THEN 16 ELSE 0)
            IN  [header_bytes |->
                    IF data
                    THEN <<first, P[2], Len(chunk) % 256, Len(chunk) \div 256>>
                    ELSE <<first, P[2], P[3], Len(chunk)>>,
                 payload |-> chunk]]

\* C11: the segments a call of Connection::write hands to the socket are, in
\* order, the first ones of the segmentation the spec states, and all of
\* them once the call has returned Ok.
C11_Segmentation ==
    emitted.packet # <<>> =>
        LET expected == SegmentsAsSpecified(emitted.packet)
            n == Len(emitted.segments)
        IN  /\ n <= Len(expected)
            /\ emitted.segments = SubSeq(expected, 1, n)
            /\ (wr = WriteIdle /\ writes[Len(writes)] = "Ok") => n = Len(expected)

\* A data packet of 1025 payload bytes has gone out whole, in two segments
\* of 1024 bytes and 1 byte.
C11_Witness ==
    /\ wr = WriteIdle
    /\ writes # <<>> /\ writes[Len(writes)] = "Ok"
    /\ Len(emitted.packet) = HEADER_SIZE + MAX_DATA_PACKET_PAYLOAD_SIZE + 1
    /\ Len(emitted.segments) = 2
    /\ Len(emitted.segments[1].payload) = MAX_DATA_PACKET_PAYLOAD_SIZE
    /\ Len(emitted.segments[2].payload) = 1

\* The message type, group id and opcode id of a packet: bits 7..5 and 3..0
\* of its first byte and bits 5..0 of its second.
Identity(packet) == <<(packet[1] \div 32) % 8, packet[1] % 16, packet[2] % 64>>

\* What C12 says a read returns for the logical packet P it was sent.
ReadsBack(P, packet) ==
    /\ SubSeq(packet, HEADER_SIZE + 1, Len(packet))
          = SubSeq(P, HEADER_SIZE + 1, Len(P))
    /\ Identity(packet) = Identity(P)
    /\ PbfOf(packet[1]) = 0

\* The first call of Connection::read after the host has sent a packet has
\* returned.
FirstReadReturned == rd.pc = "idle" /\ rd.sent # <<>> /\ rd.reads = 1

\* C12 as stated: for every logical packet P, control or data, of any
\* payload length, one read of what Connection::write makes of P returns
\* P's payload and MT/GID/OID, with PBF Complete.
C12_RoundTripAnyPacket ==
    FirstReadReturned => ReadsBack(rd.sent, rd.packet)

\* C12, amended: the same for every control packet and for every data packet
\* whose payload fits one segment; of a longer data packet, one read returns
\* the first segment as it is: its first MAX_DATA_PACKET_PAYLOAD_SIZE payload
\* bytes, with PBF NotComplete.
C12_RoundTrip ==
    FirstReadReturned =>
        LET P == rd.sent
            L == Len(P) - HEADER_SIZE
        IN  IF get_message_type(P[1]) = "Data" /\ L > MAX_DATA_PACKET_PAYLOAD_SIZE
            THEN /\ SubSeq(rd.packet, HEADER_SIZE + 1, Len(rd.packet))
                      = SubSeq(P, HEADER_SIZE + 1,
                               HEADER_SIZE + MAX_DATA_PACKET_PAYLOAD_SIZE)
                 /\ Identity(rd.packet) = Identity(P)
                 /\ PbfOf(rd.packet[1]) = 1
            ELSE ReadsBack(P, rd.packet)

\* A control packet that went out in two segments has been read back whole.
C12_Witness ==
    /\ FirstReadReturned
    /\ get_message_type(rd.sent[1]) # "Data"
    /\ Len(rd.sent) = HEADER_SIZE + MAX_CTRL_PACKET_PAYLOAD_SIZE + 1
    /\ Len(rd.packet) = Len(rd.sent)

\* C20: with a capture file, every segment Connection::read reads is recorded
\* with direction Rx and every segment Connection::write writes with
\* direction Tx.
C20_CaptureDirections ==
    \A i \in 1..Len(tap) :
        /\ tap[i].by = "read" => tap[i].direction = "Rx"
        /\ tap[i].by = "write" => tap[i].direction = "Tx"


(***************************************************************************)
(* The admin commands: CreateAnchor, DestroyAnchor, SetPosition.           *)
(***************************************************************************)
\* The core has just processed DestroyAnchor(m) right after CreateAnchor(m, _).
DestroyedAfterCreate ==
    /\ last.type = "DestroyAnchor"
    /\ last.prev.type = "CreateAnchor"
    /\ last.prev.mac_address = last.mac_address

\* The registry is the one before the CreateAnchor the core processed
\* before its last command.
RegistryAsBeforeCreate ==
    /\ devices = last.prev.devices
    /\ anchors = last.prev.anchors

\* C13 as stated: for every registry state and every mac m and position p,
\* processing CreateAnchor(m, p) followed immediately by DestroyAnchor(m)
\* leaves `devices` and `anchors` equal to their values before the two
\* commands.
C13_CreateDestroyAnyMac == DestroyedAfterCreate => RegistryAsBeforeCreate

\* C13, amended: for every registry state in which m is not the key of an
\* anchor and every position p, processing CreateAnchor(m, p) followed
\* immediately by DestroyAnchor(m) leaves `devices` and `anchors` equal to
\* their values before the two commands.
C13_CreateDestroyFreshMac ==
    (DestroyedAfterCreate /\ last.mac_address \notin DOMAIN last.prev.anchors)
        => RegistryAsBeforeCreate

\* An anchor has been created beside another participant and destroyed
\* right away: both events were emitted, the registry is as before.
C13_Witness ==
    /\ DestroyedAfterCreate
    /\ last.mac_address \notin DOMAIN last.prev.anchors
    /\ \A h \in DOMAIN last.prev.devices :
          last.prev.devices[h].mac_address # last.mac_address
    /\ events = <<DeviceRemoved("Anchor", last.mac_address)>>
    /\ last.prev.anchors # EmptyMap
    /\ last.prev.devices # EmptyMap

\* Whether mac_address names a participant: a device or an anchor.
NamesParticipant(mac_address) ==
    \/ mac_address \in DOMAIN anchors
    \/ \E h \in DOMAIN devices : devices[h].mac_address = mac_address

\* The number of DeviceUpdated events among es.
Updates(es) == Cardinality({i \in 1..Len(es) : es[i].type = "DeviceUpdated"})

\* The command at the head of the inbound channel is the SetPosition(m, p)
\* the core has processed last.
SamePositionAgain ==
    /\ last.type = "SetPosition"
    /\ last.mac_address = Head(inbound).mac_address
    /\ last.position = Head(inbound).position

\* C14: for every registry state in which mac m names a participant,
\* processing SetPosition(m, p) twice in a row leaves the registry in the
\* same state as processing it once, and each of the two calls emits exactly
\* one DeviceUpdated event.
C14_SetPositionIdempotent ==
    [][(/\ CoreHandles({"SetPosition"})
        /\ NamesParticipant(Head(inbound).mac_address)
        /\ Dequeues)
       => (/\ Updates(events') = 1
           /\ events'[1] \in
                 {DeviceUpdated(c, Head(inbound).mac_address,
                                Head(inbound).position) : c \in {"Uci", "Anchor"}}
           /\ SamePositionAgain
                 => devices' = devices /\ anchors' = anchors)]_vars

\* SetPosition(m, p) has been processed twice in a row for a device that had
\* another position, with another participant around to be notified.
C14_Witness ==
    /\ last.type = "SetPosition"
    /\ last.prev.type = "SetPosition"
    /\ last.prev.mac_address = last.mac_address
    /\ last.prev.position = last.position
    /\ \E h \in DOMAIN devices :
          /\ devices[h].mac_address = last.mac_address
          /\ devices[h].position = last.position
          /\ devices[h].position # DefaultPosition
    /\ Updates(events) = 1
    /\ Len(events) > 1

\* C15: CreateAnchor(mac, pos): if mac is already the key of an anchor or
\* the mac_address of any device, the reply is DeviceAlreadyExists(mac), the
\* registry is unchanged and no event is emitted; otherwise exactly one
\* anchor {mac, pos} is inserted, exactly one DeviceAdded(Anchor) event is
\* emitted, and the reply is Ok.
C15_CreateAnchor ==
    [][(CoreHandles({"CreateAnchor"}) /\ Dequeues)
       => LET cmd == Head(inbound)
          IN  IF NamesParticipant(cmd.mac_address)
              THEN /\ reply' = Replied(cmd, DeviceAlreadyExists(cmd.mac_address))
                   /\ devices' = devices
                   /\ anchors' = anchors
                   /\ events' = <<>>
              ELSE /\ DOMAIN anchors' = DOMAIN anchors \cup {cmd.mac_address}
                   /\ anchors'[cmd.mac_address] = cmd.position
                   /\ \A m \in DOMAIN anchors : anchors'[m] = anchors[m]
                   /\ devices' = devices
                   /\ events' = <<DeviceAdded("Anchor", cmd.mac_address,
                                              cmd.position)>>
                   /\ reply' = Replied(cmd, Ok)]_vars

\* A CreateAnchor for the mac of a connected device has been refused, the
\* caller still listening.
C15_Witness ==
    /\ last.type = "CreateAnchor"
    /\ reply = DeviceAlreadyExists(last.mac_address)
    /\ last.mac_address \notin DOMAIN anchors
    /\ \E h \in DOMAIN devices : devices[h].mac_address = last.mac_address

\* C16: DestroyAnchor(mac): if an anchor with that mac exists it is removed,
\* exactly one DeviceRemoved(Anchor) event is emitted and the reply is Ok;
\* otherwise the reply is DeviceNotFound(mac), no event is emitted and the
\* registry is unchanged. In both cases `devices` and every other anchor are
\* unchanged, even when a device owns the same mac.
C16_DestroyAnchor ==
    [][(CoreHandles({"DestroyAnchor"}) /\ Dequeues)
       => LET cmd == Head(inbound)
          IN  /\ IF cmd.mac_address \in DOMAIN anchors
                 THEN /\ cmd.mac_address \notin DOMAIN anchors'
                      /\ events' = <<DeviceRemoved("Anchor", cmd.mac_address)>>
                      /\ reply' = Replied(cmd, Ok)
                 ELSE /\ reply' = Replied(cmd, DeviceNotFound(cmd.mac_address))
                      /\ events' = <<>>
                      /\ anchors' = anchors
              /\ devices' = devices
              /\ DOMAIN anchors' = DOMAIN anchors \ {cmd.mac_address}
              /\ \A m \in DOMAIN anchors' : anchors'[m] = anchors[m]]_vars

\* An anchor has been destroyed while another anchor stays and a device
\* owns the destroyed anchor's mac.
C16_Witness ==
    /\ last.type = "DestroyAnchor"
    /\ events = <<DeviceRemoved("Anchor", last.mac_address)>>
    /\ reply = Ok
    /\ anchors # EmptyMap
    /\ \E h \in DOMAIN devices : devices[h].mac_address = last.mac_address

\* An admin command whose caller has dropped the reply receiver is at the
\* head of the inbound channel and the core takes it.
TakesUnheardCommand ==
    /\ CoreHandles({"InitUciDevice", "SetPosition", "CreateAnchor",
                    "DestroyAnchor", "GetState"})
    /\ ~Head(inbound).reply_rx
    /\ Dequeues

\* C19: for every admin command with a oneshot reply (InitUciDevice,
\* SetPosition, CreateAnchor, DestroyAnchor, GetState), if the caller has
\* dropped the reply receiver before the core replies, the core does not
\* abort: it finishes the command and goes on to process the following
\* commands.
C19_DroppedReceiverNotFatal ==
    [][TakesUnheardCommand => core' = Receiving]_vars

(***************************************************************************)
(* Packets that fail to parse.                                             *)
(***************************************************************************)
\* The step is the connection task handling the packet it has read.
Dispatches == rd.pc = "idle" /\ rd.packet # <<>> /\ rd'.packet = <<>>

\* The step hands nothing to the socket and nothing to the core.
NothingSentOrForwarded ==
    /\ UNCHANGED <<wr, writes, emitted, wire>>
    /\ inbound' = inbound

\* C17: for every inbound packet that fails to parse: if its message type is
\* Command, the result is exactly the 5-byte response
\* [(Response << 5) | (byte0 & 0x0F), byte1 & 0x3F, 0, 1, status] with status
\* UnknownGid when the group id is not recognized and UnknownOid otherwise;
\* if it is a non-command control packet or a data packet, nothing is sent
\* to the host and nothing is forwarded to the core.
C17_ParseFailure ==
    [][(Dispatches /\ ~rd'.handled.parsed.ok)
       => LET bytes == rd.packet
              result == rd'.handled.result
          IN  IF get_message_type(bytes[1]) = "Command"
              THEN /\ result.kind = "Err"
                   /\ result.response =
                         <<64 + (bytes[1] % 16), bytes[2] % 64, 0, 1,
                           IF bytes[1] % 16 \in KnownGroupIds
                           THEN UciStatusUnknownOid ELSE UciStatusUnknownGid>>
                   /\ emitted'.packet = result.response
                   /\ inbound' = inbound
              ELSE /\ result = Skip
                   /\ NothingSentOrForwarded]_vars

\* A command of an unknown group has been answered: the five bytes are on
\* the socket, the opcode cut to its six low bits.
C17_Witness ==
    /\ rd.handled.bytes = <<40, 195, 0, 1, 9>>
    /\ ~rd.handled.parsed.ok
    /\ wire = <<72, 3, 0, 1, UciStatusUnknownGid>>
    /\ writes = <<"Ok">>

(***************************************************************************)
(* The order of commands and of packets.                                   *)
(***************************************************************************)
\* The step leaves the inbound channel alone, puts one command at its end,
\* or is the core, between two commands, taking the one at its head.
InboundFifo ==
    \/ inbound' = inbound
    \/ /\ Len(inbound') = Len(inbound) + 1
       /\ SubSeq(inbound', 1, Len(inbound)) = inbound
    \/ /\ core.pc = "recv"
       /\ inbound # <<>>
       /\ inbound' = Tail(inbound)

\* The step leaves the outbound queue of device_handle alone; or the core
\* puts at its end the one packet of the command it takes in this step, or
\* of the command it is still processing (its send had waited); or the
\* connection task takes the packet at its head to write it to the socket;
\* or the task ends and what the queue holds is dropped.
OutboundFifo(device_handle) ==
    LET q == outq[device_handle]
        qAfter == outq'[device_handle]
    IN  \/ qAfter = q
        \/ /\ Len(qAfter) = Len(q) + 1
           /\ SubSeq(qAfter, 1, Len(q)) = q
           /\ \/ /\ core.pc = "recv"
                 /\ Dequeues
                 /\ Head(inbound).type \in {"UciCommand", "UciData", "Ranging"}
                 /\ Head(inbound).device_handle = device_handle
              \/ /\ core.pc = "send"
                 /\ core.device_handle = device_handle
                 /\ qAfter[Len(qAfter)] = core.pkt
                 /\ core'.pc # "send"
                 /\ inbound' = inbound
        \/ /\ q # <<>>
           /\ qAfter = Tail(q)
           /\ conn[device_handle] = Selecting
        \/ /\ qAfter = <<>>
           /\ ReceiverDropped(device_handle)'

\* C18: the core processes commands in exactly the order they were enqueued
\* on its inbound channel, one at a time, and for each device the packets
\* placed on its outbound queue (responses, credit notifications, ranging
\* notifications) appear, and are written to its socket, in the order in
\* which the core processed the commands that produced them.
C18_FifoOrder ==
    [][/\ InboundFifo
       /\ core.pc = "send" => Len(inbound') >= Len(inbound)
       /\ \A h \in DOMAIN outq \cap DOMAIN outq' : OutboundFifo(h)]_vars

\* The response to a command waits in a device's queue behind the credit
\* notification of the data packet sent before it, two further commands of
\* that device waiting on the inbound channel.
C18_Witness ==
    \E h \in DOMAIN outq :
        /\ outq[h] = <<data_message_snd, Response([op |-> "GetDeviceInfo"], "Ok")>>
        /\ Len(inbound) >= 2
        /\ \A i \in 1..2 :
              inbound[i].type = "UciCommand" /\ inbound[i].device_handle = h

Controlees(mac_address, session_id) ==
    {h \in DOMAIN devices :
        /\ IsActive(h, session_id)
        /\ devices[h].sessions[session_id].app_config.device_mac_address
              = mac_address}

\* The step stops session session_id of device h by the in-band signal and
\* nothing else of h.
StopsInband(h, session_id) ==
    LET before == devices[h]
        after == devices'[h]
    IN  /\ ticks' = ticks \ {<<h, session_id>>}
        /\ <<h, session_id>> \in ticks
        /\ DOMAIN after.sessions = DOMAIN before.sessions
        /\ after.sessions[session_id].state = "Idle"
        /\ after.sessions[session_id].reason = "SessionStoppedDueToInbandSignal"
        /\ after.sessions[session_id].app_config
              = before.sessions[session_id].app_config
        /\ after.sessions[session_id].sequence_number
              = before.sessions[session_id].sequence_number
        /\ \A s \in DOMAIN before.sessions \ {session_id} :
              after.sessions[s] = before.sessions[s]
        /\ after.n_active_sessions = before.n_active_sessions - 1
        /\ after.n_active_sessions >= 0
        /\ after.state = "Ready" <=> after.n_active_sessions = 0
        /\ after.state \in {"Ready", before.state}
        /\ after.mac_address = before.mac_address
        /\ after.position = before.position

\* C22: StopRanging(mac, s): if some device has a session s in state Active
\* whose configured device_mac_address equals mac, then on exactly one such
\* device the tick of session s is cancelled, the session becomes Idle with
\* reason SessionStoppedDueToInbandSignal, n_active_sessions decreases by
\* exactly 1 (never below 0) and the device becomes Ready exactly when it
\* reaches 0; if no such device exists, nothing changes. All other sessions
\* and devices are unchanged.
C22_StopRanging ==
    [][(CoreHandles({"StopRanging"}) /\ Dequeues)
       => LET found == Controlees(Head(inbound).mac_address,
                                  Head(inbound).session_id)
          IN  /\ DOMAIN devices' = DOMAIN devices
              /\ anchors' = anchors
              /\ outq' = outq
              /\ IF found = {}
                 THEN devices' = devices /\ ticks' = ticks
                 ELSE \E h \in found :
                         /\ StopsInband(h, Head(inbound).session_id)
                         /\ \A g \in DOMAIN devices \ {h} :
                               devices'[g] = devices[g]]_vars

\* Two devices ranged in the same session under the same configured mac and
\* the in-band signal has stopped one of them; the other still ranges.
C22_Witness ==
    \E h, g \in DOMAIN devices : \E s \in SessionIds :
        /\ h # g
        /\ HasSession(h, s) /\ IsActive(g, s)
        /\ devices[h].sessions[s].state = "Idle"
        /\ devices[h].sessions[s].reason = "SessionStoppedDueToInbandSignal"
        /\ devices[h].sessions[s].app_config.device_mac_address
              = devices[g].sessions[s].app_config.device_mac_address
        /\ devices[h].state = "Ready"
        /\ <<h, s>> \notin ticks /\ <<g, s>> \in ticks

RECURSIVE MeasuredAsSpecified(_, _, _)
\* The macs a round of (device_handle, session_id) measures, as specified:
\* for each destination in order, the anchor of that mac if there is one;
\* otherwise another device with an Active, compatible session of the same
\* id configured with that mac, if there is one; otherwise nothing.
MeasuredAsSpecified(device_handle, session_id, dst) ==
    IF dst = <<>> THEN <<>>
    ELSE LET mac_address == Head(dst)
             local == devices[device_handle].sessions[session_id].app_config
             peers == {g \in DOMAIN devices \ {device_handle} :
                          /\ IsActive(g, session_id)
                          /\ LET peer == devices[g].sessions[session_id].app_config
                             IN  /\ peer.device_mac_address = mac_address
                                 /\ can_start_ranging_with_peer(local, peer)}
         IN  (IF mac_address \in DOMAIN anchors \/ peers # {}
              THEN <<mac_address>> ELSE <<>>)
             \o MeasuredAsSpecified(device_handle, session_id, Tail(dst))

\* C23: in one ranging round for (device, session), each destination mac of
\* the session contributes at most one measurement, in destination order: one
\* (toward the anchor) if an anchor has that mac; otherwise one if another
\* device has a session with the same session_id that is Active, compatible,
\* and configured with that mac; otherwise none. No destination ever yields
\* two measurements and the ranging device never measures against itself.
C23_OneMeasurementPerDestination ==
    [][\A h \in Handles, s \in SessionIds :
          (/\ CoreHandles({"Ranging"})
           /\ Head(inbound).device_handle = h
           /\ Head(inbound).session_id = s
           /\ HasSession(h, s)
           /\ Dequeues)
          => \A pkt \in NtfAppended(h, s) :
                [i \in 1..Len(pkt.two_way_ranging_measurements) |->
                    pkt.two_way_ranging_measurements[i].mac_address]
                = MeasuredAsSpecified(h, s,
                     devices[h].sessions[s].app_config.dst_mac_addresses)]_vars

\* The participants of the registry, devices by handle and anchors by mac.
Participants ==
    {<<"Uci", h>> : h \in DOMAIN devices} \cup {<<"Anchor", m>> : m \in DOMAIN anchors}

\* The mac address of participant P.
MacOf(P) == IF P[1] = "Uci" THEN devices[P[2]].mac_address ELSE P[2]

\* The participants SetPosition(mac_address, _) moves: the devices of that
\* mac, or else the anchor of that mac.
Moved(mac_address) ==
    LET ds == {P \in Participants : P[1] = "Uci" /\ MacOf(P) = mac_address}
    IN  IF ds # {} THEN ds
        ELSE {P \in Participants : P[1] = "Anchor" /\ MacOf(P) = mac_address}

\* The NeighborUpdated events among es from (category, mac) to (category, mac).
NeighborEvents(es, sc, sm, dc, dm) ==
    {i \in 1..Len(es) :
        /\ es[i].type = "NeighborUpdated"
        /\ es[i].source_category = sc /\ es[i].source_mac_address = sm
        /\ es[i].destination_category = dc /\ es[i].destination_mac_address = dm}

\* The events es are those of a successful SetPosition(mac_address, _) that
\* has moved participant M: DeviceUpdated first, then one pair of
\* NeighborUpdated events for every other participant.
EventsOfMove(es, M, mac_address) ==
    LET others == Participants \ {M}
    IN  /\ Len(es) = 1 + 2 * Cardinality(others)
        /\ es[1].type = "DeviceUpdated"
        /\ \A i \in 2..Len(es) : es[i].type = "NeighborUpdated"
        /\ \A P \in others :
              \E i, j \in 2..Len(es) :
                 /\ es[i].source_mac_address = mac_address
                 /\ es[i].destination_category = P[1]
                 /\ es[i].destination_mac_address = MacOf(P)
                 /\ es[j].source_category = P[1]
                 /\ es[j].source_mac_address = MacOf(P)
                 /\ es[j].destination_mac_address = mac_address
                 /\ es[i].distance = es[j].distance
                 /\ i # j

\* C24: a successful SetPosition(mac, pos) emits exactly one DeviceUpdated
\* event first and then, for every other participant P in the registry
\* (every device and anchor other than the one moved), exactly two
\* NeighborUpdated events, one with source mac and destination P and one
\* with source P and destination mac, both carrying the same distance; so
\* with n participants it emits 2(n - 1) NeighborUpdated events. A
\* SetPosition that replies DeviceNotFound emits no event.
C24_SetPositionEvents ==
    [][(CoreHandles({"SetPosition"}) /\ Dequeues)
       => LET mac_address == Head(inbound).mac_address
          IN  IF Moved(mac_address) = {}
              THEN events' = <<>>
              ELSE \E M \in Moved(mac_address) :
                      EventsOfMove(events', M, mac_address)]_vars

\* C24 in the registries where no mac is both a device's and an anchor's.
C24_WhenMacsDistinct ==
    [][(CoreHandles({"SetPosition"}) /\ Dequeues /\ C1_MacUniqueness)
       => LET mac_address == Head(inbound).mac_address
          IN  IF Moved(mac_address) = {}
              THEN events' = <<>>
              ELSE \E M \in Moved(mac_address) :
                      EventsOfMove(events', M, mac_address)]_vars

RECURSIVE PayloadsOf(_)
\* The payloads, one after the other, of the control segments `bytes` is
\* made of.
PayloadsOf(bytes) ==
    IF Len(bytes) < HEADER_SIZE THEN <<>>
    ELSE SubSeq(bytes, HEADER_SIZE + 1, HEADER_SIZE + bytes[4])
         \o PayloadsOf(SubSeq(bytes, HEADER_SIZE + bytes[4] + 1, Len(bytes)))

RECURSIVE LastHeaderOf(_)
\* The header of the last of the control segments `bytes` is made of.
LastHeaderOf(bytes) ==
    IF Len(bytes) <= HEADER_SIZE + bytes[4] THEN SubSeq(bytes, 1, HEADER_SIZE)
    ELSE LastHeaderOf(SubSeq(bytes, HEADER_SIZE + bytes[4] + 1, Len(bytes)))

\* C25: Connection::read of a control packet sent as N segments (the first
\* N-1 with PBF = NotComplete, the last with PBF = Complete) returns the
\* 4-byte header of the last segment followed by the payloads of all N
\* segments in order; the non-length fields of the first N-1 headers have no
\* effect on the returned packet.
C25_Reassembly ==
    FirstReadReturned =>
        rd.packet = LastHeaderOf(rd.sent) \o PayloadsOf(rd.sent)

\* Three segments whose headers name three different opcodes and two message
\* types have been read as one packet under the header of the third.
C25_Witness ==
    /\ FirstReadReturned
    /\ rd.sent = <<49, 3, 0, 1, 101, 114, 4, 0, 1, 102, 33, 3, 0, 1, 103>>
    /\ rd.packet = <<33, 3, 0, 1, 101, 102, 103>>
    /\ stream = <<>>

\* C26: InitUciDevice(mac, pos): if some device currently has mac_address =
\* mac, that device's mac is set to mac and its position to pos and the reply
\* is Ok; otherwise the reply is DeviceNotFound(mac) and the registry is
\* unchanged. The command never changes the mac_address of any device, never
\* touches anchors, and emits no event.
C26_InitUciDevice ==
    [][(CoreHandles({"InitUciDevice"}) /\ Dequeues)
       => LET cmd == Head(inbound)
              named == {h \in DOMAIN devices :
                           devices[h].mac_address = cmd.mac_address}
          IN  /\ anchors' = anchors
              /\ events' = <<>>
              /\ DOMAIN devices' = DOMAIN devices
              /\ \A h \in DOMAIN devices :
                    devices'[h].mac_address = devices[h].mac_address
              /\ IF named = {}
                 THEN /\ devices' = devices
                      /\ reply' = Replied(cmd, [status |-> "DeviceNotFound",
                                                mac_address |-> cmd.mac_address])
                 ELSE /\ \E h \in named :
                            /\ devices'[h] = [devices[h] EXCEPT
                                                 !.position = cmd.position]
                            /\ \A g \in DOMAIN devices \ {h} :
                                  devices'[g] = devices[g]
                      /\ reply' = Replied(cmd, [status |-> "Ok"])]_vars

\* A device has just been given a position by InitUciDevice, beside another
\* device and an anchor that stayed where they were.
C26_Witness ==
    /\ reply = Ok /\ events = <<>> /\ last = NoCommand
    /\ anchors # EmptyMap
    /\ \E h, g \in DOMAIN devices :
          /\ devices[h].position # DefaultPosition
          /\ devices[g].position = DefaultPosition

(***************************************************************************)
(* The order of responses on one connection.                               *)
(***************************************************************************)
\* C27 as stated: on a single host connection, responses reach the wire in
\* the order of the commands that caused them, including when B fails to
\* parse and its error response is written directly by the connection task
\* while A's response travels through the core and the outbound queue. The
\* host sends the unparsable command last, so no response to another command
\* comes after the error response.
C27_ResponsesInCommandOrder ==
    \A i, j \in 1..Len(Responses) :
        (i < j /\ IsErrorResponse(Responses[i])) => IsErrorResponse(Responses[j])

\* C27, amended: on a single host connection, the responses to commands
\* that parse reach the wire in the order of those commands: the response to
\* the first SessionInit (Ok) comes before the response to every later one
\* (SessionDuplicate).
C27_ParsedInCommandOrder ==
    LET parsed == SelectSeq(Responses, LAMBDA r : ~IsErrorResponse(r))
    IN  \A i \in 1..Len(parsed) :
           parsed[i][5] = IF i = 1 THEN StatusByte("Ok")
                          ELSE StatusByte("SessionDuplicate")

\* Both responses of two SessionInit sent back to back are on the socket.
C27_Witness ==
    /\ Len(Responses) = 2
    /\ Responses[1][5] = StatusByte("Ok")
    /\ Responses[2][5] = StatusByte("SessionDuplicate")

=============================================================================
